---------------------------- MODULE Spec2Model ----------------------------
(***************************************************************************)
(* EnhancedCADEngine (src/backend/enhanced_cad_engine.py): the registry of *)
(* 12 primitive generators, mesh generation and the property calculator;   *)
(* and DigiformCADEngine (src/backend/python_backend/digiform_cad.py): the  *)
(* session that parses a description, creates the current model, modifies *)
(* and exports it.                                                         *)
(*                                                                         *)
(* Numbers.  Python floats are modelled in fixed point:                    *)
(*   - a length (mm) is an integer count of 1/Q mm, Q = 16; the inputs     *)
(*     used are multiples of 1/8 mm, so halving is exact, as it is for the *)
(*     same binary fractions in IEEE doubles;                              *)
(*   - a value reported after round(x, 2) is an integer count of 1/100;    *)
(*   - math.cos / math.sin are a table of 480 samples per turn scaled by   *)
(*     TrigOne; a normal component is scaled by NormalOne.                 *)
(* Results that are not binary fractions (x / 3, r * cos a, pi * r^2 * h)  *)
(* are truncated or rounded to the grid; this is stated where it happens.  *)
(***************************************************************************)
EXTENDS Integers, Sequences, FiniteSets, TLC

\* EnhancedCADEngine: the registry of each engine, and for each caller the
\* engine it runs on, its position in process_description and its locals
VARIABLES feature_library, engine, pc, parsed, geometry_data, properties, exception

\* DigiformCADEngine: the attributes of the session, the files below the
\* working directory, the call last made and the result it returned
VARIABLES current_model, feature_history, filesystem, call, response

mesh_vars == <<feature_library, engine, pc, parsed, geometry_data, properties, exception>>

session_vars == <<current_model, feature_history, filesystem, call, response>>

VARIABLES material_name, density_result
material_vars == <<material_name, density_result>>

vars == <<mesh_vars, session_vars, material_vars>>

-----------------------------------------------------------------------------
(* Fixed-point arithmetic *)

\* units per millimetre
Q == 16

\* the fixed-point value of a whole number of millimetres
MM(n) == n * Q

\* scale of a trigonometric value, of an angle in radians and of a normal
TrigOne == 16384
NormalOne == 1024

\* x / d for floats: a ZeroDivisionError when d = 0 is raised by the caller's
\* guard; here the quotient is truncated toward zero on the grid
Quot(x, d) == IF x >= 0 THEN x \div d ELSE 0 - ((0 - x) \div d)

\* <<floor(n * p / q), (n * p) mod q>> for n, p >= 0 and q > 0, computed by
\* doubling so that no intermediate value leaves 32 bits
RECURSIVE MulDivMod(_, _, _)
MulDivMod(n, p, q) ==
    IF p = 0 THEN <<0, 0>>
    ELSE LET h == MulDivMod(n, p \div 2, q)
             two == <<2 * h[1] + ((2 * h[2]) \div q), (2 * h[2]) % q>>
         IN IF p % 2 = 1
            THEN <<two[1] + (n \div q) + ((two[2] + (n % q)) \div q),
                   (two[2] + (n % q)) % q>>
            ELSE two

\* round(n * p / q, 0) as Python rounds an exactly represented value:
\* to nearest, ties to even
RoundHalfEven(n, p, q) ==
    LET fr == MulDivMod(n, p, q)
    IN IF 2 * fr[2] > q THEN fr[1] + 1
       ELSE IF 2 * fr[2] = q /\ fr[1] % 2 = 1 THEN fr[1] + 1
       ELSE fr[1]

\* round(x, 2) of a length x given in 1/Q mm, in hundredths of a mm
Round2(x) == IF x >= 0 THEN RoundHalfEven(x, 100, Q)
             ELSE 0 - RoundHalfEven(0 - x, 100, Q)

-----------------------------------------------------------------------------
(* math.cos, math.sin, math.pi *)

\* samples per full turn of the cosine table
TurnSteps == 480

\* round(cos(2 * pi * k / 480) * TrigOne) for k = 0 .. 120
CosQuarter == <<
  16384, 16383, 16378, 16371, 16362, 16349, 16333, 16315, 16294, 16270, 16244, 16214, 16182,
  16147, 16110, 16069, 16026, 15980, 15931, 15880, 15826, 15769, 15709, 15647, 15582, 15515,
  15444, 15371, 15296, 15218, 15137, 15053, 14968, 14879, 14788, 14694, 14598, 14500, 14399,
  14295, 14189, 14081, 13970, 13856, 13741, 13623, 13502, 13380, 13255, 13128, 12998, 12867,
  12733, 12597, 12458, 12318, 12176, 12031, 11885, 11736, 11585, 11433, 11278, 11121, 10963,
  10803, 10641, 10477, 10311, 10143, 9974, 9803, 9630, 9456, 9280, 9102, 8923, 8743, 8561,
  8377, 8192, 8006, 7818, 7629, 7438, 7246, 7053, 6859, 6664, 6467, 6270, 6071, 5872, 5671,
  5469, 5266, 5063, 4859, 4653, 4447, 4240, 4033, 3825, 3616, 3406, 3196, 2986, 2775, 2563,
  2351, 2139, 1926, 1713, 1499, 1285, 1072, 857, 643, 429, 214, 0 >>

\* math.cos of the angle 2 * pi * k / TurnSteps, scaled by TrigOne
Cos(k) ==
    LET a == k % TurnSteps
    IN IF a <= 120 THEN CosQuarter[a + 1]
       ELSE IF a <= 240 THEN 0 - CosQuarter[(240 - a) + 1]
       ELSE IF a <= 360 THEN 0 - CosQuarter[(a - 240) + 1]
       ELSE CosQuarter[(480 - a) + 1]

\* math.sin of the angle 2 * pi * k / TurnSteps, scaled by TrigOne
Sin(k) == Cos(k + 360)

\* the table index of the angle (2 * pi * i) / n
Angle(i, n) == (i * TurnSteps) \div n

\* r * math.cos(angle), r * math.sin(angle): a length, rounded to the grid
RoundTrig(v) == IF v >= 0 THEN (v + (TrigOne \div 2)) \div TrigOne
                ELSE 0 - (((0 - v) + (TrigOne \div 2)) \div TrigOne)
MulCos(r, k) == RoundTrig(r * Cos(k))
MulSin(r, k) == RoundTrig(r * Sin(k))

\* math.pi as the rational PiNum / PiDen
PiNum == 355
PiDen == 113

-----------------------------------------------------------------------------
(* Python dict and list access *)

\* d.get(k, dflt)
Get(d, k, dflt) == IF k \in DOMAIN d THEN d[k] ELSE dflt

\* the value of values[i] when i is past the end of the list (IndexError)
IndexError == 0 - 1000000

\* values[i], i counted from 0 as in Python
Item(values, i) == IF i < Len(values) THEN values[i + 1] ELSE IndexError

\* a generator's outcome when an exception leaves it
Raise(name) == [raised |-> name]
Raised(g) == "raised" \in DOMAIN g

\* the flat list built by extending it with the n points P(0) .. P(n-1)
Flat(n, P(_)) ==
    LET pts == [i \in 1..n |-> P(i - 1)] \o <<>>
    IN [k \in 1..(3 * n) |-> pts[((k - 1) \div 3) + 1][((k - 1) % 3) + 1]] \o <<>>

\* [a, b, c] * n
Repeat3(a, b, c, n) ==
    [k \in 1..(3 * n) |-> IF (k - 1) % 3 = 0 THEN a ELSE IF (k - 1) % 3 = 1 THEN b ELSE c]

\* len(vertices) // 3
PointCount(flat) == Len(flat) \div 3

\* UniformNormals without the // 3: one normal per coordinate
UniformNormalsPerCoordinate(vertices) == Repeat3(0, 0, NormalOne, Len(vertices))

\* normals = [0, 0, 1] * (len(vertices) // 3)
UniformNormals(vertices) == Repeat3(0, 0, NormalOne, PointCount(vertices))


\* ItemOr with the length test off by one: values[i] if len(values) >= i
ItemOrOffByOne(values, i, dflt) == IF Len(values) >= i THEN Item(values, i) ELSE dflt

\* values[i] if len(values) > i else dflt
ItemOr(values, i, dflt) == IF Len(values) > i THEN Item(values, i) ELSE dflt

\* Twice without the doubling: values[i] taken as the diameter itself
TwiceIsOnce(v) == v

\* values[i] * 2: an IndexError raised by values[i] propagates
Twice(v) == IF v = IndexError THEN IndexError ELSE v * 2

\* math.sqrt on the grid: the largest s with s * s <= n
RECURSIVE SqrtBetween(_, _, _)
SqrtBetween(n, lo, hi) ==
    IF lo >= hi THEN lo
    ELSE LET mid == (lo + hi + 1) \div 2
         IN IF mid * mid <= n THEN SqrtBetween(n, mid, hi)
            ELSE SqrtBetween(n, lo, mid - 1)
Sqrt(n) == SqrtBetween(n, 0, IF n < 4096 * 4096 THEN 4095 ELSE 46340)

\* Range counting from 1: list(range(1, n + 1))
RangeFromOne(n) == [k \in 1..n |-> k]

\* list(range(n))
Range(n) == [k \in 1..n |-> k - 1]

\* list(range(start, stop, step)) for step > 0
RangeStep(start, stop, step) ==
    [n \in 1..(IF stop > start THEN ((stop - start) + (step - 1)) \div step ELSE 0)
        |-> start + (n - 1) * step]

\* the flat list built by extending it, for n = 0 .. count-1 in turn, with the
\* `per` entries Chunk(n)[1] .. Chunk(n)[per]
Extend(count, per, Chunk(_)) ==
    LET chunks == [n \in 1..count |-> Chunk(n - 1)] \o <<>>
    IN [k \in 1..(count * per) |-> chunks[((k - 1) \div per) + 1][((k - 1) % per) + 1]]

-----------------------------------------------------------------------------
(* The primitive generators.  Each returns the mesh record the code returns, *)
(* or Raise(e) when exception e leaves the generator.                        *)

\* math.cos(math.radians(20)) scaled by TrigOne
Cos20Deg == 15396

\* the angle 2 * pi * k / n in radians, scaled by TrigOne
Radians(k, n) == (k * 2 * PiNum * TrigOne) \div (PiDen * n)

\* involute_point(base_radius, angle) for angle = 2 * pi * k / n
involute_point(base_radius, k, n) ==
    LET a == Radians(k, n)
        idx == Angle(k, n)
    IN <<RoundTrig(base_radius * (Cos(idx) + Quot(a * Sin(idx), TrigOne))),
         RoundTrig(base_radius * (Sin(idx) - Quot(a * Cos(idx), TrigOne)))>>

\* angle < angle_offset + math.pi / teeth for angle = angle_offset + j * angle_step
\* and angle_step = 2 * pi / (teeth * 4): j quarter-steps against two of them
OnToothFace(j) == j * 2 < 4

\* the vertices of a face without its center point
FaceVerticesNoCenter(teeth) == 4 * teeth

\* the vertices of one face: the center point, then 4 points per tooth
FaceVertices(teeth) == 1 + 4 * teeth

generate_gear(dimensions) ==
    LET values == Get(dimensions, "values", <<MM(25), MM(10)>>)
        teeth == Get(dimensions, "teeth", 20)
        fallback == IF values # <<>> THEN Twice(Item(values, 0)) ELSE MM(50)
        diameter == Get(dimensions, "diameter", fallback)
        radius == Quot(diameter, 2)
        thickness == ItemOr(values, 1, MM(10))
        module == Quot(diameter, teeth)
        dedendum == Quot(5 * module, 4)
        base_radius == RoundTrig(radius * Cos20Deg)
        count == IF teeth > 0 THEN teeth ELSE 0
        per_face == FaceVertices(count)
        z(face) == IF face = 0 THEN 0 - Quot(thickness, 2) ELSE Quot(thickness, 2)
        Tooth(face, i, j) ==
            IF OnToothFace(j)
            THEN LET p == involute_point(base_radius, 4 * i + j, 4 * teeth)
                 IN <<p[1], p[2], z(face)>>
            ELSE <<MulCos(radius - dedendum, Angle(4 * i + j, 4 * teeth)),
                   MulSin(radius - dedendum, Angle(4 * i + j, 4 * teeth)),
                   z(face)>>
        Vertex(n) ==
            LET face == n \div per_face
                m == n % per_face
            IN IF m = 0 THEN <<0, 0, z(face)>>
               ELSE Tooth(face, (m - 1) \div 4, (m - 1) % 4)
        Normal(n) == <<0, 0, IF n \div per_face = 0 THEN 0 - NormalOne ELSE NormalOne>>
        vertex_count == 2 * per_face
        center_index == 0
        starts == SelectSeq(RangeStep(1, vertex_count, 4), LAMBDA i : i + 3 < vertex_count)
        Fan(n) == LET i == starts[n + 1]
                  IN <<center_index, i, i + 1, center_index, i + 1, i + 2,
                       center_index, i + 2, i + 3>>
    IN IF IndexError \in {fallback, thickness} THEN Raise("IndexError")
       ELSE IF teeth = 0 THEN Raise("ZeroDivisionError")
       ELSE [type |-> "gear",
             vertices |-> Flat(vertex_count, Vertex),
             normals |-> Flat(vertex_count, Normal),
             indices |-> Extend(Len(starts), 9, Fan),
             parameters |-> [teeth |-> teeth, radius |-> radius, thickness |-> thickness,
                             module |-> module, base_radius |-> base_radius]]

\* the ring of segments + 1 bottom / top vertex pairs of the shaft and the cylinder
RingVertex(radius, segments, extent, n) ==
    <<MulCos(radius, Angle(n \div 2, segments)),
      MulSin(radius, Angle(n \div 2, segments)),
      IF n % 2 = 0 THEN 0 - Quot(extent, 2) ELSE Quot(extent, 2)>>

\* [x / radius, y / radius, 0]
RingNormal(radius, segments, n) ==
    <<Quot(MulCos(radius, Angle(n \div 2, segments)) * NormalOne, radius),
      Quot(MulSin(radius, Angle(n \div 2, segments)) * NormalOne, radius),
      0>>

\* the ring without the pair that closes it: segments pairs
RingVertexCountOpen(segments) == segments * 2

\* for i in range(segments + 1): a bottom and a top vertex per step
RingVertexCount(segments) == (segments + 1) * 2

\* TopCenter without the - 1: the index one past the last vertex
TopCenterPastEnd(vertex_count) == vertex_count

\* top_center = len(vertices) // 3 - 1
TopCenter(vertex_count) == vertex_count - 1

generate_shaft(dimensions) ==
    LET values == Get(dimensions, "values", <<Quot(MM(25), 2), MM(100)>>)
        fallback == IF values # <<>> THEN Twice(Item(values, 0)) ELSE MM(25)
        diameter == Get(dimensions, "diameter", fallback)
        length == ItemOr(values, 1, MM(100))
        radius == Quot(diameter, 2)
        segments == 32
        Vertex(n) == RingVertex(radius, segments, length, n)
        Normal(n) == RingNormal(radius, segments, n)
        vertex_count == RingVertexCount(segments)
        Faces(i) ==
            LET bottom1 == i * 2
                bottom2 == ((i + 1) % segments) * 2
                top1 == bottom1 + 1
                top2 == bottom2 + 1
                top_center == TopCenter(vertex_count)
            IN <<bottom1, top1, top2, bottom1, top2, bottom2,
                 0, bottom1, bottom2, top_center, top2, top1>>
    IN IF IndexError \in {fallback, length} THEN Raise("IndexError")
       ELSE IF radius = 0 THEN Raise("ZeroDivisionError")
       ELSE [type |-> "shaft",
             vertices |-> Flat(vertex_count, Vertex),
             normals |-> Flat(vertex_count, Normal),
             indices |-> Extend(segments, 12, Faces),
             parameters |-> [radius |-> radius, length |-> length, segments |-> segments]]

generate_bearing(dimensions) ==
    LET values == Get(dimensions, "values", <<MM(30), MM(15)>>)
        fallback == IF values # <<>> THEN Twice(Item(values, 0)) ELSE MM(60)
        outer_diameter == Get(dimensions, "diameter", fallback)
        inner_diameter == IF Len(values) > 1 THEN Twice(Item(values, 1)) ELSE MM(30)
        thickness == ItemOr(values, 2, MM(15))
        outer_radius == Quot(outer_diameter, 2)
        inner_radius == Quot(inner_diameter, 2)
        segments == 48
        r(n) == IF n % 4 < 2 THEN outer_radius ELSE inner_radius
        Vertex(n) ==
            <<MulCos(r(n), Angle(n \div 4, segments)),
              MulSin(r(n), Angle(n \div 4, segments)),
              IF n % 2 = 0 THEN Quot(thickness, 2) ELSE 0 - Quot(thickness, 2)>>
        Normal(n) ==
            <<Quot(MulCos(r(n), Angle(n \div 4, segments)) * NormalOne, r(n)),
              Quot(MulSin(r(n), Angle(n \div 4, segments)) * NormalOne, r(n)),
              0>>
        vertex_count == (segments + 1) * 4
    IN IF IndexError \in {fallback, inner_diameter, thickness} THEN Raise("IndexError")
       ELSE IF outer_radius = 0 \/ inner_radius = 0 THEN Raise("ZeroDivisionError")
       ELSE [type |-> "bearing",
             vertices |-> Flat(vertex_count, Vertex),
             normals |-> Flat(vertex_count, Normal),
             indices |-> Range(PointCount(Flat(vertex_count, Vertex))),
             parameters |-> [outer_radius |-> outer_radius, inner_radius |-> inner_radius,
                             thickness |-> thickness,
                             note |-> "Complex bearing triangulation not implemented - simplified geometry"]]

\* BoxCorner mirrored in x: the corners of the left and right side exchanged
BoxCornerMirrored(width, height, thickness, n) ==
    <<IF n % 4 \in {0, 3} THEN Quot(width, 2) ELSE 0 - Quot(width, 2),
      IF n % 4 \in {0, 1} THEN 0 - Quot(height, 2) ELSE Quot(height, 2),
      IF n < 4 THEN Quot(thickness, 2) ELSE 0 - Quot(thickness, 2)>>

\* the 8 corners of the box width x height x thickness, front face first
BoxCorner(width, height, thickness, n) ==
    <<IF n % 4 \in {0, 3} THEN 0 - Quot(width, 2) ELSE Quot(width, 2),
      IF n % 4 \in {0, 1} THEN 0 - Quot(height, 2) ELSE Quot(height, 2),
      IF n < 4 THEN Quot(thickness, 2) ELSE 0 - Quot(thickness, 2)>>

generate_bracket(dimensions) ==
    LET values == Get(dimensions, "values", <<MM(100), MM(50), MM(10)>>)
        width == ItemOr(values, 0, MM(100))
        height == ItemOr(values, 1, MM(50))
        thickness == ItemOr(values, 2, MM(10))
        Vertex(n) ==
            IF n < 8 THEN BoxCorner(width, height, thickness, n)
            ELSE <<Quot(0 - width, 3), Quot(0 - height, 3),
                   IF n = 8 THEN Quot(thickness, 2) ELSE 0 - Quot(thickness, 2)>>
        vertices == Flat(10, Vertex)
    IN IF IndexError \in {width, height, thickness} THEN Raise("IndexError")
       ELSE [type |-> "bracket",
             vertices |-> vertices,
             normals |-> UniformNormals(vertices),
             indices |-> <<0, 1, 2, 0, 2, 3,
                           4, 6, 5, 4, 7, 6,
                           0, 4, 5, 0, 5, 1,
                           1, 5, 6, 1, 6, 2,
                           2, 6, 7, 2, 7, 3,
                           3, 7, 4, 3, 4, 0>>,
             parameters |-> [width |-> width, height |-> height, thickness |-> thickness,
                             mounting_holes |-> 4,
                             note |-> "Simplified bracket - real implementation would include proper fillets and hole geometry"]]

generate_plate(dimensions) ==
    LET values == Get(dimensions, "values", <<MM(100), MM(100), MM(5)>>)
        width == ItemOr(values, 0, MM(100))
        height == ItemOr(values, 1, MM(100))
        thickness == ItemOr(values, 2, MM(5))
        Vertex(n) == BoxCorner(width, height, thickness, n)
        vertices == Flat(8, Vertex)
    IN IF IndexError \in {width, height, thickness} THEN Raise("IndexError")
       ELSE [type |-> "plate",
             vertices |-> vertices,
             normals |-> UniformNormals(vertices),
             indices |-> <<0, 1, 2, 0, 2, 3,
                           4, 6, 5, 4, 7, 6,
                           0, 4, 5, 0, 5, 1,
                           1, 5, 6, 1, 6, 2,
                           2, 6, 7, 2, 7, 3,
                           3, 7, 4, 3, 4, 0>>,
             parameters |-> [width |-> width, height |-> height, thickness |-> thickness]]


generate_bolt(dimensions) ==
    LET values == Get(dimensions, "values", <<MM(4), MM(30)>>)
        fallback == IF values # <<>> THEN Twice(Item(values, 0)) ELSE MM(8)
        diameter == Get(dimensions, "diameter", fallback)
        length == ItemOr(values, 1, MM(30))
        radius == Quot(diameter, 2)
        head_radius == Quot(radius * 3, 2)
        head_height == Quot(radius * 4, 5)
        segments == 16
        shaft_start == 6 * 2
        Vertex(n) ==
            IF n < shaft_start
            THEN <<MulCos(head_radius, Angle(n \div 2, 6)),
                   MulSin(head_radius, Angle(n \div 2, 6)),
                   IF n % 2 = 0 THEN 0 ELSE head_height>>
            ELSE <<MulCos(radius, Angle((n - shaft_start) \div 2, segments)),
                   MulSin(radius, Angle((n - shaft_start) \div 2, segments)),
                   IF (n - shaft_start) % 2 = 0 THEN head_height ELSE head_height + length>>
        vertices == Flat(shaft_start + (segments + 1) * 2, Vertex)
    IN IF IndexError \in {fallback, length} THEN Raise("IndexError")
       ELSE [type |-> "bolt",
             vertices |-> vertices,
             normals |-> UniformNormals(vertices),
             indices |-> Range(PointCount(vertices)),
             parameters |-> [radius |-> radius, length |-> length,
                             head_radius |-> head_radius, head_height |-> head_height]]

generate_cube(dimensions) ==
    LET fallback == IF Get(dimensions, "values", <<>>) # <<>>
                    THEN Item(Get(dimensions, "values", <<MM(50)>>), 0)
                    ELSE MM(50)
        size == Get(dimensions, "size", fallback)
        Vertex(n) == BoxCorner(size, size, size, n)
        vertices == Flat(8, Vertex)
    IN IF fallback = IndexError THEN Raise("IndexError")
       ELSE [type |-> "cube",
             vertices |-> vertices,
             normals |-> UniformNormals(vertices),
             indices |-> <<0, 1, 2, 0, 2, 3,
                           4, 6, 5, 4, 7, 6,
                           1, 5, 6, 1, 6, 2,
                           0, 3, 7, 0, 7, 4,
                           3, 2, 6, 3, 6, 7,
                           0, 4, 5, 0, 5, 1>>,
             parameters |-> [size |-> size]]

generate_prism(dimensions) ==
    LET first == IF Get(dimensions, "values", <<>>) # <<>>
                 THEN Item(Get(dimensions, "values", <<MM(30), MM(30), MM(50)>>), 0)
                 ELSE MM(30)
        second == IF Len(Get(dimensions, "values", <<>>)) > 1
                  THEN Item(Get(dimensions, "values", <<MM(30), MM(30), MM(50)>>), 1)
                  ELSE MM(30)
        third == IF Len(Get(dimensions, "values", <<>>)) > 2
                 THEN Item(Get(dimensions, "values", <<MM(30), MM(30), MM(50)>>), 2)
                 ELSE MM(50)
        base_width == Get(dimensions, "baseWidth", first)
        base_height == Get(dimensions, "baseHeight", second)
        length == Get(dimensions, "length", third)
        half_length == Quot(length, 2)
        Vertex(n) ==
            <<IF n % 3 = 0 THEN 0
              ELSE IF n % 3 = 1 THEN Quot(0 - base_width, 2) ELSE Quot(base_width, 2),
              IF n % 3 = 0 THEN Quot(base_height, 2) ELSE Quot(0 - base_height, 2),
              IF n < 3 THEN half_length ELSE 0 - half_length>>
        vertices == Flat(6, Vertex)
    IN IF IndexError \in {first, second, third} THEN Raise("IndexError")
       ELSE [type |-> "prism",
             vertices |-> vertices,
             normals |-> UniformNormals(vertices),
             indices |-> <<0, 1, 2, 3, 5, 4, 0, 2, 5, 0, 5, 3,
                           1, 4, 5, 1, 5, 2, 0, 3, 4, 0, 4, 1>>,
             parameters |-> [base_width |-> base_width, base_height |-> base_height,
                             length |-> length]]

generate_cylinder(dimensions) ==
    LET values == Get(dimensions, "values", <<MM(25), MM(50)>>)
        first == IF values # <<>> THEN Item(values, 0) ELSE MM(25)
        second == ItemOr(values, 1, MM(50))
        radius == Get(dimensions, "radius", first)
        height == Get(dimensions, "height", second)
        segments == 32
        Vertex(n) == RingVertex(radius, segments, height, n)
        Normal(n) == RingNormal(radius, segments, n)
        vertex_count == RingVertexCount(segments)
        Faces(i) ==
            LET bottom1 == i * 2
                bottom2 == ((i + 1) % segments) * 2
                top1 == bottom1 + 1
                top2 == bottom2 + 1
            IN <<bottom1, top1, top2, bottom1, top2, bottom2>>
    IN IF IndexError \in {first, second} THEN Raise("IndexError")
       ELSE IF radius = 0 THEN Raise("ZeroDivisionError")
       ELSE [type |-> "cylinder",
             vertices |-> Flat(vertex_count, Vertex),
             normals |-> Flat(vertex_count, Normal),
             indices |-> Extend(segments, 6, Faces),
             parameters |-> [radius |-> radius, height |-> height, segments |-> segments]]

generate_sphere(dimensions) ==
    LET fallback == IF Get(dimensions, "values", <<>>) # <<>>
                    THEN Item(Get(dimensions, "values", <<MM(25)>>), 0)
                    ELSE MM(25)
        radius == Get(dimensions, "radius", fallback)
        segments == 16
        rings == 16
        Vertex(n) ==
            LET i == n \div (segments + 1)
                j == n % (segments + 1)
                phi == Angle(i, 2 * rings)
                theta == Angle(j, segments)
            IN <<MulCos(MulSin(radius, phi), theta),
                 MulSin(MulSin(radius, phi), theta),
                 MulCos(radius, phi)>>
        vertex_count == (rings + 1) * (segments + 1)
        vertices == Flat(vertex_count, Vertex)
        Normal(n) ==
            LET x == vertices[3 * n + 1]
                y == vertices[3 * n + 2]
                z == vertices[3 * n + 3]
                length == Sqrt(x * x + y * y + z * z)
            IN <<Quot(x * NormalOne, length), Quot(y * NormalOne, length),
                 Quot(z * NormalOne, length)>>
        Cell(n) ==
            LET i == n \div segments
                j == n % segments
                first == i * (segments + 1) + j
                second == first + segments + 1
            IN <<first, second, first + 1, second, second + 1, first + 1>>
    IN IF fallback = IndexError THEN Raise("IndexError")
       ELSE IF radius = 0 THEN Raise("ZeroDivisionError")
       ELSE [type |-> "sphere",
             vertices |-> vertices,
             normals |-> Flat(vertex_count, Normal),
             indices |-> Extend(rings * segments, 6, Cell),
             parameters |-> [radius |-> radius, segments |-> segments, rings |-> rings]]

\* generate_cone using the top radius: the apex moved off the axis by it
generate_cone_truncated(dimensions) ==
    LET first == IF Get(dimensions, "values", <<>>) # <<>>
                 THEN Item(Get(dimensions, "values", <<MM(25), MM(50)>>), 0)
                 ELSE MM(25)
        second == IF Len(Get(dimensions, "values", <<>>)) > 1
                  THEN Item(Get(dimensions, "values", <<MM(25), MM(50)>>), 1)
                  ELSE MM(50)
        base_radius == Get(dimensions, "baseRadius", first)
        top_radius == Get(dimensions, "topRadius", 0)
        height == Get(dimensions, "height", second)
        segments == 32
        Vertex(n) ==
            IF n = 0 THEN <<top_radius, 0, Quot(height, 2)>>
            ELSE <<MulCos(base_radius, Angle(n - 1, segments)),
                   MulSin(base_radius, Angle(n - 1, segments)),
                   0 - Quot(height, 2)>>
        Normal(n) == <<0, 0, IF n = 0 THEN NormalOne ELSE 0 - NormalOne>>
        Face(n) == LET i == n + 1 IN <<0, i, IF i < segments THEN i + 1 ELSE 1>>
    IN IF IndexError \in {first, second} THEN Raise("IndexError")
       ELSE [type |-> "cone",
             vertices |-> Flat(1 + (segments + 1), Vertex),
             normals |-> Flat(1 + (segments + 1), Normal),
             indices |-> Extend(segments, 3, Face),
             parameters |-> [base_radius |-> base_radius, top_radius |-> top_radius,
                             height |-> height, segments |-> segments]]

generate_cone(dimensions) ==
    LET first == IF Get(dimensions, "values", <<>>) # <<>>
                 THEN Item(Get(dimensions, "values", <<MM(25), MM(50)>>), 0)
                 ELSE MM(25)
        second == IF Len(Get(dimensions, "values", <<>>)) > 1
                  THEN Item(Get(dimensions, "values", <<MM(25), MM(50)>>), 1)
                  ELSE MM(50)
        base_radius == Get(dimensions, "baseRadius", first)
        top_radius == Get(dimensions, "topRadius", 0)
        height == Get(dimensions, "height", second)
        segments == 32
        Vertex(n) ==
            IF n = 0 THEN <<0, 0, Quot(height, 2)>>
            ELSE <<MulCos(base_radius, Angle(n - 1, segments)),
                   MulSin(base_radius, Angle(n - 1, segments)),
                   0 - Quot(height, 2)>>
        Normal(n) == <<0, 0, IF n = 0 THEN NormalOne ELSE 0 - NormalOne>>
        Face(n) == LET i == n + 1 IN <<0, i, IF i < segments THEN i + 1 ELSE 1>>
    IN IF IndexError \in {first, second} THEN Raise("IndexError")
       ELSE [type |-> "cone",
             vertices |-> Flat(1 + (segments + 1), Vertex),
             normals |-> Flat(1 + (segments + 1), Normal),
             indices |-> Extend(segments, 3, Face),
             parameters |-> [base_radius |-> base_radius, top_radius |-> top_radius,
                             height |-> height, segments |-> segments]]

generate_pyramid(dimensions) ==
    LET first == IF Get(dimensions, "values", <<>>) # <<>>
                 THEN Item(Get(dimensions, "values", <<MM(30), MM(30), MM(40)>>), 0)
                 ELSE MM(30)
        second == IF Len(Get(dimensions, "values", <<>>)) > 1
                  THEN Item(Get(dimensions, "values", <<MM(30), MM(30), MM(40)>>), 1)
                  ELSE MM(30)
        third == IF Len(Get(dimensions, "values", <<>>)) > 2
                 THEN Item(Get(dimensions, "values", <<MM(30), MM(30), MM(40)>>), 2)
                 ELSE MM(40)
        base_width == Get(dimensions, "baseWidth", first)
        base_depth == Get(dimensions, "baseDepth", second)
        height == Get(dimensions, "height", third)
        half_width == Quot(base_width, 2)
        half_depth == Quot(base_depth, 2)
        Vertex(n) ==
            IF n = 0 THEN <<0, 0, Quot(height, 2)>>
            ELSE <<IF n \in {1, 4} THEN 0 - half_width ELSE half_width,
                   IF n \in {1, 2} THEN 0 - half_depth ELSE half_depth,
                   0 - Quot(height, 2)>>
        vertices == Flat(5, Vertex)
    IN IF IndexError \in {first, second, third} THEN Raise("IndexError")
       ELSE [type |-> "pyramid",
             vertices |-> vertices,
             normals |-> UniformNormals(vertices),
             indices |-> <<0, 1, 2, 0, 2, 3, 0, 3, 4, 0, 4, 1, 1, 3, 2, 1, 4, 3>>,
             parameters |-> [base_width |-> base_width, base_depth |-> base_depth,
                             height |-> height]]


-----------------------------------------------------------------------------
(* The generator registry and dispatch *)

\* self.feature_library as __init__ builds it: family tag -> bound method
FeatureLibrary ==
    [gear |-> "_generate_gear", shaft |-> "_generate_shaft",
     bearing |-> "_generate_bearing", bracket |-> "_generate_bracket",
     plate |-> "_generate_plate", bolt |-> "_generate_bolt",
     cube |-> "_generate_cube", prism |-> "_generate_prism",
     cylinder |-> "_generate_cylinder", sphere |-> "_generate_sphere",
     cone |-> "_generate_cone", pyramid |-> "_generate_pyramid"]

\* the methods class EnhancedCADEngine defines; self._generate_generic_solid
\* is not one of them
Call(method, dimensions) ==
    CASE method = "_generate_gear" -> generate_gear(dimensions)
      [] method = "_generate_shaft" -> generate_shaft(dimensions)
      [] method = "_generate_bearing" -> generate_bearing(dimensions)
      [] method = "_generate_bracket" -> generate_bracket(dimensions)
      [] method = "_generate_plate" -> generate_plate(dimensions)
      [] method = "_generate_bolt" -> generate_bolt(dimensions)
      [] method = "_generate_cube" -> generate_cube(dimensions)
      [] method = "_generate_prism" -> generate_prism(dimensions)
      [] method = "_generate_cylinder" -> generate_cylinder(dimensions)
      [] method = "_generate_sphere" -> generate_sphere(dimensions)
      [] method = "_generate_cone" -> generate_cone(dimensions)
      [] method = "_generate_pyramid" -> generate_pyramid(dimensions)
      [] OTHER -> Raise("AttributeError")

generate_enhanced_geometry(library, p) ==
    LET component_type == p["type"]
        dimensions == p["dimensions"]
    IN IF component_type \in DOMAIN library
       THEN Call(library[component_type], dimensions)
       ELSE Call("_generate_generic_solid", dimensions)

-----------------------------------------------------------------------------
(* The property calculator *)

\* max(coords), min(coords) over the points lo .. hi of the stream
\* vertices[offset::3], by halving the range
RECURSIVE MaxOver(_, _, _, _)
MaxOver(flat, offset, lo, hi) ==
    IF lo = hi THEN flat[3 * lo + offset + 1]
    ELSE LET mid == (lo + hi) \div 2
             a == MaxOver(flat, offset, lo, mid)
             b == MaxOver(flat, offset, mid + 1, hi)
         IN IF a >= b THEN a ELSE b
RECURSIVE MinOver(_, _, _, _)
MinOver(flat, offset, lo, hi) ==
    IF lo = hi THEN flat[3 * lo + offset + 1]
    ELSE LET mid == (lo + hi) \div 2
             a == MinOver(flat, offset, lo, mid)
             b == MinOver(flat, offset, mid + 1, hi)
         IN IF a <= b THEN a ELSE b

\* max(coords) - min(coords) for coords = vertices[offset::3]
Extent(vertices, offset) ==
    MaxOver(vertices, offset, 0, PointCount(vertices) - 1)
        - MinOver(vertices, offset, 0, PointCount(vertices) - 1)

\* calculate_bounding_box with the width taken from the x stream
calculate_bounding_box_width_of_x(geometry) ==
    LET vertices == geometry.vertices
    IN IF vertices = <<>> THEN [length |-> 0, width |-> 0, height |-> 0]
       ELSE [length |-> Round2(Extent(vertices, 0)),
             width |-> Round2(Extent(vertices, 0)),
             height |-> Round2(Extent(vertices, 2))]

\* the bounding box, each side in hundredths of a mm
calculate_bounding_box(geometry) ==
    LET vertices == geometry.vertices
    IN IF vertices = <<>> THEN [length |-> 0, width |-> 0, height |-> 0]
       ELSE [length |-> Round2(Extent(vertices, 0)),
             width |-> Round2(Extent(vertices, 1)),
             height |-> Round2(Extent(vertices, 2))]

\* material_props: density in hundredths of g/cm^3, yield strength in MPa
MaterialProps ==
    [Steel |-> [density |-> 785, yield_strength |-> 250],
     Aluminum |-> [density |-> 270, yield_strength |-> 95],
     Titanium |-> [density |-> 450, yield_strength |-> 880]]

\* Volume with the cube's own extent: size ** 3 when the mesh carries a size
VolumeOfSize(geometry) ==
    LET params == geometry.parameters
    IN IF geometry.type = "gear"
       THEN [circular |-> TRUE, cubic |-> params.radius * params.radius * params.thickness]
       ELSE IF geometry.type = "shaft"
       THEN [circular |-> TRUE, cubic |-> params.radius * params.radius * params.length]
       ELSE [circular |-> FALSE,
             cubic |-> Get(params, "width", Get(params, "size", MM(50)))
                          * Get(params, "height", Get(params, "size", MM(50)))
                          * Get(params, "thickness", Get(params, "size", MM(10)))]

\* Volume reading the height only where a width stands beside it
VolumeHeightOfBoxOnly(geometry) ==
    LET params == geometry.parameters
    IN IF geometry.type = "gear"
       THEN [circular |-> TRUE, cubic |-> params.radius * params.radius * params.thickness]
       ELSE IF geometry.type = "shaft"
       THEN [circular |-> TRUE, cubic |-> params.radius * params.radius * params.length]
       ELSE [circular |-> FALSE,
             cubic |-> Get(params, "width", MM(50))
                          * (IF "width" \in DOMAIN params THEN Get(params, "height", MM(50))
                             ELSE MM(50))
                          * Get(params, "thickness", MM(10))]

\* the volume before rounding: (pi if circular else 1) * cubic / Q^3 mm^3
Volume(geometry) ==
    LET params == geometry.parameters
    IN IF geometry.type = "gear"
       THEN [circular |-> TRUE, cubic |-> params.radius * params.radius * params.thickness]
       ELSE IF geometry.type = "shaft"
       THEN [circular |-> TRUE, cubic |-> params.radius * params.radius * params.length]
       ELSE [circular |-> FALSE,
             cubic |-> Get(params, "width", MM(50)) * Get(params, "height", MM(50))
                          * Get(params, "thickness", MM(10))]

\* round(volume * num / den, 2) in hundredths, for a volume as Volume gives it
RoundVolume(volume, num, den) ==
    IF volume.circular
    THEN RoundHalfEven(volume.cubic, PiNum * num, PiDen * Q * Q * Q * den)
    ELSE RoundHalfEven(volume.cubic, num, Q * Q * Q * den)

\* calculate_properties resolving a name outside the table to its first entry
calculate_properties_default_of_aluminum(geometry, p) ==
    LET material == Get(p, "material", "Steel")
        props == Get(MaterialProps, material, MaterialProps["Aluminum"])
        volume == Volume(geometry)
    IN [volume |-> RoundVolume(volume, 100, 1),
        mass |-> RoundVolume(volume, props.density, 1000),
        material |-> material,
        density |-> props.density,
        yield_strength |-> props.yield_strength,
        bounding_box |-> calculate_bounding_box(geometry)]

\* calculate_properties with the mass taken from the rounded volume
calculate_properties_mass_of_rounded(geometry, p) ==
    LET material == Get(p, "material", "Steel")
        props == Get(MaterialProps, material, MaterialProps["Steel"])
        volume == Volume(geometry)
    IN [volume |-> RoundVolume(volume, 100, 1),
        mass |-> RoundHalfEven(RoundVolume(volume, 100, 1), props.density, 100000),
        material |-> material,
        density |-> props.density,
        yield_strength |-> props.yield_strength,
        bounding_box |-> calculate_bounding_box(geometry)]

calculate_properties(geometry, p) ==
    LET material == Get(p, "material", "Steel")
        props == Get(MaterialProps, material, MaterialProps["Steel"])
        volume == Volume(geometry)
    IN [volume |-> RoundVolume(volume, 100, 1),
        mass |-> RoundVolume(volume, props.density, 1000),
        material |-> material,
        density |-> props.density,
        yield_strength |-> props.yield_strength,
        bounding_box |-> calculate_bounding_box(geometry)]


-----------------------------------------------------------------------------
(* Requests: the inputs explored *)

\* longest `values` list explored
MaxValuesLen == 3

\* number of alternative `values` lists explored per length
ValueVariants == 2

\* the i-th entry of the `values` list of a variant, a positive length:
\* variant 1 is 18.125, 9.5, 3, 5, ...; variant 2 is 50, 25, 10, 5, ...;
\* each further variant is a millimetre longer in every entry
ValueAt(variant, i) ==
    IF variant = 1
    THEN (IF i = 1 THEN MM(18) + 2 ELSE IF i = 2 THEN MM(9) + 8 ELSE IF i = 3 THEN MM(3) ELSE MM(5))
    ELSE MM(variant - 2)
             + (IF i = 1 THEN MM(50) ELSE IF i = 2 THEN MM(25) ELSE IF i = 3 THEN MM(10) ELSE MM(5))

ValueLists ==
    {<<>>} \cup {[i \in 1..n |-> ValueAt(v, i)] : n \in 1..MaxValuesLen, v \in 1..ValueVariants}

\* the named dimension fields explored, as the dict holding them
NamedFields ==
    {[k \in {} |-> 0],
     [diameter |-> MM(50), teeth |-> 20],
     [teeth |-> 3],
     [radius |-> MM(25) + 2, height |-> MM(50)],
     [size |-> MM(50)],
     [diameter |-> MM(25), length |-> MM(100)],
     [teeth |-> 1, radius |-> MM(10), length |-> MM(80),
      base_width |-> MM(20), base_height |-> MM(12), base_depth |-> MM(14)]}

\* a dimensions dict: named fields, with or without a `values` list
Dimensions ==
    NamedFields \cup {named @@ [values |-> vs] : named \in NamedFields, vs \in ValueLists}

\* the 12 registered family tags and one that is not registered
Families == DOMAIN FeatureLibrary \cup {"widget"}

\* the material names explored: the table's and one that is not in it
Materials == DOMAIN MaterialProps \cup {"Brass"}

\* the dimensions dicts without a named field
PlainDimensions == {d \in Dimensions : DOMAIN d \subseteq {"values"}}

\* the parsed requests explored: every dimensions dict with material Steel,
\* and every material, or none, with the dimensions dicts of PlainDimensions
ParsedInputs ==
    {[type |-> f, dimensions |-> d, material |-> "Steel"] : f \in Families, d \in Dimensions}
        \cup {[type |-> f, dimensions |-> d, material |-> m] :
                 f \in Families, d \in PlainDimensions, m \in Materials}
        \cup {[type |-> f, dimensions |-> d] : f \in Families, d \in PlainDimensions}

\* the parsed requests explored when two callers run together
SharedInputs ==
    {[type |-> f, dimensions |-> d, material |-> m] :
        f \in {"cube", "pyramid", "widget"},
        d \in {[k \in {} |-> 0], [values |-> <<ValueAt(1, 1)>>]},
        m \in {"Aluminum", "Brass"}}

-----------------------------------------------------------------------------
(* The state machine: process_description, one step per statement *)

Engines == {1, 2}
Requests == {1, 2}

None == [type |-> "None"]

\* material_name=None, among names that are sequences of characters
NoName == <<"None">>

\* request r holds the mesh its generator returned
HasMesh(r) == pc[r] \in {"generated", "done"}

\* EnhancedCADEngine(): __init__ builds the registry of each engine
Init ==
    /\ feature_library = [e \in Engines |-> FeatureLibrary]
    /\ engine = [r \in Requests |-> 1]
    /\ pc = [r \in Requests |-> "idle"]
    /\ parsed = [r \in Requests |-> None]
    /\ geometry_data = [r \in Requests |-> None]
    /\ properties = [r \in Requests |-> None]
    /\ exception = [r \in Requests |-> "none"]
    /\ current_model = None
    /\ feature_history = <<>>
    /\ filesystem = {}
    /\ call = None
    /\ response = None
    /\ material_name = NoName
    /\ density_result = <<>>

\* engine e's process_description is entered by caller r:
\* parsed = self._parse_description(description)
Parse(r, e, p) ==
    /\ pc[r] = "idle"
    /\ pc' = [pc EXCEPT ![r] = "parsed"]
    /\ engine' = [engine EXCEPT ![r] = e]
    /\ parsed' = [parsed EXCEPT ![r] = p]
    /\ UNCHANGED <<feature_library, geometry_data, properties, exception>>
    /\ UNCHANGED <<session_vars, material_vars>>

\* GenerateEnhancedGeometry keeping the mesh in one buffer that all the
\* requests read
GenerateEnhancedGeometryInSharedBuffer(r) ==
    /\ pc[r] = "parsed"
    /\ \E g \in {generate_enhanced_geometry(feature_library[engine[r]], parsed[r])} :
          IF Raised(g)
          THEN /\ pc' = [pc EXCEPT ![r] = "raised"]
               /\ exception' = [exception EXCEPT ![r] = g.raised]
               /\ UNCHANGED geometry_data
          ELSE /\ pc' = [pc EXCEPT ![r] = "generated"]
               /\ geometry_data' = [q \in Requests |-> IF q = r \/ HasMesh(q) THEN g ELSE geometry_data[q]]
               /\ UNCHANGED exception
    /\ UNCHANGED <<feature_library, engine, parsed, properties>>
    /\ UNCHANGED <<session_vars, material_vars>>

\* geometry_data = self._generate_enhanced_geometry(parsed)
GenerateEnhancedGeometry(r) ==
    /\ pc[r] = "parsed"
    /\ \E g \in {generate_enhanced_geometry(feature_library[engine[r]], parsed[r])} :
          IF Raised(g)
          THEN /\ pc' = [pc EXCEPT ![r] = "raised"]
               /\ exception' = [exception EXCEPT ![r] = g.raised]
               /\ UNCHANGED geometry_data
          ELSE /\ pc' = [pc EXCEPT ![r] = "generated"]
               /\ geometry_data' = [geometry_data EXCEPT ![r] = g]
               /\ UNCHANGED exception
    /\ UNCHANGED <<feature_library, engine, parsed, properties>>
    /\ UNCHANGED <<session_vars, material_vars>>

\* CalculateProperties that also removes the family it served from the
\* registry of the engine it ran on
CalculatePropertiesDropsEntry(r) ==
    /\ pc[r] = "generated"
    /\ properties' = [properties EXCEPT ![r] = calculate_properties(geometry_data[r], parsed[r])]
    /\ pc' = [pc EXCEPT ![r] = "done"]
    /\ feature_library' =
           [feature_library EXCEPT ![engine[r]] =
               [k \in (DOMAIN @) \ {parsed[r]["type"]} |-> @[k]]]
    /\ UNCHANGED <<engine, parsed, geometry_data, exception>>
    /\ UNCHANGED <<session_vars, material_vars>>

\* properties = self._calculate_properties(geometry_data, parsed)
CalculateProperties(r) ==
    /\ pc[r] = "generated"
    /\ properties' = [properties EXCEPT ![r] = calculate_properties(geometry_data[r], parsed[r])]
    /\ pc' = [pc EXCEPT ![r] = "done"]
    /\ UNCHANGED <<feature_library, engine, parsed, geometry_data, exception>>
    /\ UNCHANGED <<session_vars, material_vars>>

\* the call has returned or raised; the caller drops the result
Return(r) ==
    /\ pc[r] \in {"done", "raised"}
    /\ pc' = [pc EXCEPT ![r] = "idle"]
    /\ engine' = [engine EXCEPT ![r] = 1]
    /\ parsed' = [parsed EXCEPT ![r] = None]
    /\ geometry_data' = [geometry_data EXCEPT ![r] = None]
    /\ properties' = [properties EXCEPT ![r] = None]
    /\ exception' = [exception EXCEPT ![r] = "none"]
    /\ UNCHANGED feature_library
    /\ UNCHANGED <<session_vars, material_vars>>

\* one caller at a time, on one engine
Next ==
    \/ \E p \in ParsedInputs : Parse(1, 1, p)
    \/ GenerateEnhancedGeometry(1)
    \/ CalculateProperties(1)
    \/ Return(1)

Spec == Init /\ [][Next]_vars

\* two callers, on one engine or on two, their steps interleaved
NextShared ==
    \/ \E r \in Requests, e \in Engines, p \in SharedInputs : Parse(r, e, p)
    \/ \E r \in Requests : GenerateEnhancedGeometry(r)
    \/ \E r \in Requests : CalculateProperties(r)
    \/ \E r \in Requests : Return(r)

SpecShared == Init /\ [][NextShared]_vars

\* dimensions with a zero in them: no teeth, no diameter, no radius, zero
\* entries in `values`; and the empty dict, for the defaults
DegenerateDimensions ==
    {[k \in {} |-> 0],
     [teeth |-> 0],
     [diameter |-> 0],
     [radius |-> 0],
     [diameter |-> 0, teeth |-> 0],
     [values |-> <<0>>],
     [values |-> <<0, 0>>],
     [values |-> <<MM(25), 0>>],
     [values |-> <<MM(25), 0, 0>>]}

\* the parsed requests explored for the degenerate dimensions
DegenerateInputs ==
    {[type |-> f, dimensions |-> d, material |-> "Steel"] :
        f \in DOMAIN FeatureLibrary, d \in DegenerateDimensions}

\* one caller at a time, on one engine, with degenerate dimensions
NextDegenerate ==
    \/ \E p \in DegenerateInputs : Parse(1, 1, p)
    \/ GenerateEnhancedGeometry(1)
    \/ CalculateProperties(1)
    \/ Return(1)

SpecDegenerate == Init /\ [][NextDegenerate]_vars

\* cone requests: base radius and height by default, by `values` or by name,
\* each with the top radius absent, zero, or positive
ConeInputs ==
    {[type |-> "cone", dimensions |-> base @@ top, material |-> "Steel"] :
        base \in {[k \in {} |-> 0],
                  [values |-> <<MM(18) + 2, MM(9) + 8>>],
                  [baseRadius |-> MM(20), height |-> MM(30)]},
        top \in {[k \in {} |-> 0], [topRadius |-> 0], [topRadius |-> MM(10)],
                 [topRadius |-> MM(25)]}}

\* two callers on one engine asking for cones
NextCone ==
    \/ \E r \in Requests, p \in ConeInputs : Parse(r, 1, p)
    \/ \E r \in Requests : GenerateEnhancedGeometry(r)
    \/ \E r \in Requests : CalculateProperties(r)
    \/ \E r \in Requests : Return(r)

SpecCone == Init /\ [][NextCone]_vars

-----------------------------------------------------------------------------
(* DigiformCADEngine: the session of digiform_cad.py.  A description is the *)
(* sequence of its words; the descriptions explored hold no unit (mm, cm,  *)
(* inch), hole, fillet or chamfer word, so of the parser's patterns only   *)
(* the component keywords, the teeth count and the module can match.  The  *)
(* geometry kernel, the renderer and the exporter are outside the source:  *)
(* each call to them either goes through or raises, and both are explored. *)

\* the numerals of the descriptions explored, and their values
Numerals == ("2" :> 2) @@ ("12" :> 12) @@ ("20" :> 20)

\* word in text_lower
Has(text, word) == \E i \in 1..Len(text) : text[i] = word

\* EnhancedNLPParser._detect_component_type
detect_component_type(text) ==
    IF Has(text, "gear") THEN "gear"
    ELSE IF Has(text, "shaft") \/ Has(text, "axle") THEN "shaft"
    ELSE IF Has(text, "bearing") THEN "bearing"
    ELSE IF Has(text, "bracket") \/ Has(text, "mount") THEN "bracket"
    ELSE IF Has(text, "plate") THEN "plate"
    ELSE IF Has(text, "bolt") \/ Has(text, "screw") THEN "bolt"
    ELSE IF Has(text, "housing") \/ Has(text, "enclosure") THEN "housing"
    ELSE "custom"

\* the positions where a numeral is followed by one of the words
NumeralBefore(text, words) ==
    {i \in 1..(Len(text) - 1) : text[i] \in DOMAIN Numerals /\ text[i + 1] \in words}

\* the positions where the word is followed by a numeral
NumeralAfter(text, word) ==
    {i \in 1..(Len(text) - 1) : text[i] = word /\ text[i + 1] \in DOMAIN Numerals}

\* the least position of a non-empty set: re.search returns the first match
First(positions) == CHOOSE i \in positions : \A j \in positions : i <= j

\* EnhancedNLPParser._extract_dimensions: (\d+)\s*(?:teeth|tooth) and
\* module\s*(\d+\.?\d*)
extract_dimensions(text) ==
    LET teeth == NumeralBefore(text, {"teeth", "tooth"})
        module == NumeralAfter(text, "module")
    IN (IF teeth = {} THEN <<>> ELSE [teeth |-> Numerals[text[First(teeth)]]])
           @@ (IF module = {} THEN <<>> ELSE [module |-> Numerals[text[First(module) + 1]]])

\* EnhancedNLPParser._build_parameters, with no feature extracted
build_parameters(component_type, dims) ==
    IF component_type = "gear"
    THEN LET teeth == Get(dims, "teeth", 20)
             module == Get(dims, "module", 2)
         IN [teeth |-> teeth, module |-> module,
             thickness |-> Get(dims, "thickness", Get(dims, "height", 10)),
             pitch_diameter |-> module * teeth]
    ELSE IF component_type = "shaft"
    THEN [diameter |-> Get(dims, "diameter", Get(dims, "width", 20)),
          length |-> Get(dims, "length", 100)]
    ELSE IF component_type = "bracket"
    THEN [width |-> Get(dims, "width", 50), height |-> Get(dims, "height", 30),
          thickness |-> Get(dims, "thickness", Get(dims, "depth", 10))]
    ELSE <<>>

\* EnhancedNLPParser.parse_description: the keys of the result that the
\* session reads
parse_description(description) ==
    LET component_type == detect_component_type(description)
        dimensions == extract_dimensions(description)
    IN [component_type |-> component_type,
        dimensions |-> dimensions,
        features |-> <<>>,
        parameters |-> build_parameters(component_type, dimensions)]

\* a CADModel that ParametricEngine built: model.build() set its result
CADModel(kind, parameters) == [type |-> "CADModel", kind |-> kind, parameters |-> parameters]

\* DigiformCADEngine._create_model_from_parsed_data; built is whether the
\* geometry kernel built the solid, an exception in it gives None
create_model_from_parsed_data(parsed_data, built) ==
    LET component_type == parsed_data.component_type
        parameters == parsed_data.parameters
        dims == parsed_data.dimensions
    IN IF ~built THEN None
       ELSE IF component_type = "gear"
       THEN CADModel("gear", [teeth |-> Get(parameters, "teeth", 20),
                              module |-> Get(parameters, "module", 2),
                              thickness |-> Get(parameters, "thickness", 10),
                              bore_diameter |-> Get(parameters, "bore_diameter", 0)])
       ELSE IF component_type = "shaft"
       THEN CADModel("shaft", [diameter |-> Get(parameters, "diameter", 20),
                               length |-> Get(parameters, "length", 100)])
       ELSE IF component_type = "bracket"
       THEN CADModel("bracket", [width |-> Get(parameters, "width", 50),
                                 height |-> Get(parameters, "height", 30),
                                 thickness |-> Get(parameters, "thickness", 10)])
       ELSE IF component_type = "custom"
       THEN CADModel("custom", [width |-> Get(dims, "width", 50),
                                height |-> Get(dims, "height", 30),
                                depth |-> Get(dims, "thickness", Get(dims, "depth", 10))])
       ELSE CADModel("bracket", [width |-> 50, height |-> 30, thickness |-> 10])

\* a path: whether it starts at the root, and its components
Path(absolute, parts) == [absolute |-> absolute, parts |-> parts]

\* os.path.join(a, b): b alone when b is absolute, else b below a
join(a, b) == IF b.absolute THEN b ELSE Path(a.absolute, a.parts \o b.parts)

\* DigiformCADEngine("test_output")
output_dir == Path(FALSE, <<"test_output">>)

\* format.lower()
lower(format) == IF format = "STL" THEN "stl" ELSE IF format = "STEP" THEN "step" ELSE format

\* f"model_{self._get_timestamp()}.{format.lower()}"
timestamp_filename(format) ==
    Path(FALSE, <<IF lower(format) = "stl" THEN "model_<timestamp>.stl"
                  ELSE IF lower(format) = "step" THEN "model_<timestamp>.step"
                  ELSE "model_<timestamp>">>)

\* the descriptions explored
Descriptions ==
    {<<"gear", "20", "teeth", "module", "2">>,
     <<"gear">>,
     <<"gear", "12", "teeth">>,
     <<"shaft">>,
     <<"widget">>}

\* the formats and the file names export_model is called with; NoFilename
\* is filename=None
Formats == {"stl", "obj", "dxf"}
NoFilename == Path(FALSE, <<>>)
Filenames ==
    {NoFilename, Path(FALSE, <<"test_gear.stl">>), Path(TRUE, <<"tmp", "gear.stl">>)}

\* the longest feature history explored
MaxHistory == 1

\* process_natural_language(description); built, rendered and extracted are
\* whether the kernel built the solid, the preview was rendered and the
\* properties were extracted without an exception
ProcessNaturalLanguage(description, built, rendered, extracted) ==
    LET parsed_data == parse_description(description)
        missing_params == Get(parsed_data, "missing_gear_params", <<>>)
        model == create_model_from_parsed_data(parsed_data, built)
    IN /\ call' = [name |-> "process_natural_language", description |-> description]
       /\ IF parsed_data.component_type = "gear" /\ missing_params # <<>>
          THEN /\ response' = [success |-> FALSE,
                               error |-> "INCOMPLETE GEAR SPECIFICATION",
                               component_type |-> "gear",
                               missing_parameters |-> missing_params]
               /\ UNCHANGED <<current_model, feature_history>>
          ELSE IF model # None
          THEN /\ Len(feature_history) < MaxHistory
               /\ current_model' = model
               /\ feature_history' = Append(feature_history,
                                            [description |-> description,
                                             parsed_data |-> parsed_data,
                                             model |-> model])
               /\ response' = IF rendered /\ extracted
                              THEN [success |-> TRUE, model |-> model,
                                    parsed_data |-> parsed_data,
                                    preview |-> "image", properties |-> "properties"]
                              ELSE [success |-> FALSE, error |-> "Processing error"]
          ELSE /\ response' = [success |-> FALSE,
                               error |-> "Failed to create CAD model from parsed data"]
               /\ UNCHANGED <<current_model, feature_history>>
       /\ UNCHANGED <<filesystem, mesh_vars, material_vars>>

\* ModifyModel without the test for a current model: the model of the
\* modifications becomes current when there was none
ModifyModelWithoutModel(modifications, built, rendered) ==
    LET mod_parsed == parse_description(modifications)
        modified_model == create_model_from_parsed_data(mod_parsed, built)
    IN /\ call' = [name |-> "modify_model", description |-> modifications]
       /\ IF modified_model # None
          THEN /\ current_model' = modified_model
               /\ response' = IF rendered
                              THEN [success |-> TRUE, model |-> modified_model,
                                    preview |-> "image"]
                              ELSE [success |-> FALSE, error |-> "Modification error"]
          ELSE /\ response' = [success |-> FALSE, error |-> "Failed to apply modifications"]
               /\ UNCHANGED current_model
       /\ UNCHANGED <<feature_history, filesystem, mesh_vars, material_vars>>

\* modify_model(modifications)
ModifyModel(modifications, built, rendered) ==
    LET mod_parsed == parse_description(modifications)
        modified_model == create_model_from_parsed_data(mod_parsed, built)
    IN /\ call' = [name |-> "modify_model", description |-> modifications]
       /\ IF current_model = None
          THEN /\ response' = [success |-> FALSE, error |-> "No current model to modify"]
               /\ UNCHANGED current_model
          ELSE IF modified_model # None
          THEN /\ current_model' = modified_model
               /\ response' = IF rendered
                              THEN [success |-> TRUE, model |-> modified_model,
                                    preview |-> "image"]
                              ELSE [success |-> FALSE, error |-> "Modification error"]
          ELSE /\ response' = [success |-> FALSE, error |-> "Failed to apply modifications"]
               /\ UNCHANGED current_model
       /\ UNCHANGED <<feature_history, filesystem, mesh_vars, material_vars>>

\* export_model(format, filename); wrote is whether export_stl / export_step
\* returned True: the model has a result and the exporter wrote the file
ExportModel(format, filename, wrote) ==
    LET name == IF filename = NoFilename THEN timestamp_filename(format) ELSE filename
        filepath == join(output_dir, name)
        success == lower(format) \in {"stl", "step"} /\ wrote
    IN /\ call' = [name |-> "export_model", format |-> format, filename |-> filename]
       /\ IF current_model = None
          THEN /\ response' = [success |-> FALSE, error |-> "No model to export"]
               /\ UNCHANGED filesystem
          ELSE IF lower(format) \notin {"stl", "step", "obj"}
          THEN /\ response' = [success |-> FALSE, error |-> "Unsupported format"]
               /\ UNCHANGED filesystem
          ELSE IF success
          THEN /\ filesystem' = filesystem \cup {filepath}
               /\ response' = [success |-> TRUE, filepath |-> filepath, format |-> format]
          ELSE /\ response' = [success |-> FALSE, error |-> "Export failed"]
               /\ UNCHANGED filesystem
       /\ UNCHANGED <<current_model, feature_history, mesh_vars, material_vars>>

\* get_model_properties(); an exception in the extraction leaves the call
GetModelProperties(extracted) ==
    /\ call' = [name |-> "get_model_properties"]
    /\ response' = IF current_model = None THEN [error |-> "No model available"]
                   ELSE IF extracted THEN [properties |-> "properties"]
                   ELSE [raised |-> "Exception"]
    /\ UNCHANGED <<current_model, feature_history, filesystem, mesh_vars, material_vars>>

\* get_feature_history()
GetFeatureHistory ==
    /\ call' = [name |-> "get_feature_history"]
    /\ response' = [history |-> feature_history]
    /\ UNCHANGED <<current_model, feature_history, filesystem, mesh_vars, material_vars>>

\* the calls of one session, in any order
NextSession ==
    \/ \E d \in Descriptions, built, rendered, extracted \in BOOLEAN :
          ProcessNaturalLanguage(d, built, rendered, extracted)
    \/ \E d \in Descriptions, built, rendered \in BOOLEAN : ModifyModel(d, built, rendered)
    \/ \E f \in Formats, n \in Filenames, wrote \in BOOLEAN : ExportModel(f, n, wrote)
    \/ \E extracted \in BOOLEAN : GetModelProperties(extracted)
    \/ GetFeatureHistory

SpecSession == Init /\ [][NextSession]_vars

-----------------------------------------------------------------------------
(* MaterialDatabase of cad_engine.py.  A name is the sequence of its         *)
(* characters, so that lower() and the substring test `in` are computed as   *)
(* Python computes them.                                                     *)

\* self.materials as __init__ builds it, in the order of the dict literal,
\* which is the order .keys() iterates in; densities in kg/m^3
materials ==
    <<[key |-> <<"S", "t", "e", "e", "l">>,
       name |-> <<"S", "t", "r", "u", "c", "t", "u", "r", "a", "l", " ", "S", "t", "e", "e", "l">>, density |-> 7850],
      [key |-> <<"S", "t", "r", "u", "c", "t", "u", "r", "a", "l", " ", "S", "t", "e", "e", "l">>,
       name |-> <<"S", "t", "r", "u", "c", "t", "u", "r", "a", "l", " ", "S", "t", "e", "e", "l">>, density |-> 7850],
      [key |-> <<"A", "l", "u", "m", "i", "n", "u", "m">>,
       name |-> <<"A", "l", "u", "m", "i", "n", "u", "m">>, density |-> 2700],
      [key |-> <<"T", "i", "t", "a", "n", "i", "u", "m">>,
       name |-> <<"T", "i", "t", "a", "n", "i", "u", "m">>, density |-> 4500],
      [key |-> <<"C", "o", "p", "p", "e", "r">>,
       name |-> <<"C", "o", "p", "p", "e", "r">>, density |-> 8960],
      [key |-> <<"B", "r", "a", "s", "s">>,
       name |-> <<"B", "r", "a", "s", "s">>, density |-> 8470],
      [key |-> <<"P", "l", "a", "s", "t", "i", "c">>,
       name |-> <<"P", "l", "a", "s", "t", "i", "c">>, density |-> 1200],
      [key |-> <<"C", "o", "m", "p", "o", "s", "i", "t", "e">>,
       name |-> <<"C", "o", "m", "p", "o", "s", "i", "t", "e">>, density |-> 1600],
      [key |-> <<"C", "a", "s", "t", " ", "I", "r", "o", "n">>,
       name |-> <<"C", "a", "s", "t", " ", "I", "r", "o", "n">>, density |-> 7200],
      [key |-> <<"S", "t", "a", "i", "n", "l", "e", "s", "s", " ", "S", "t", "e", "e", "l">>,
       name |-> <<"S", "t", "a", "i", "n", "l", "e", "s", "s", " ", "S", "t", "e", "e", "l">>, density |-> 7750]>>

\* self.default_material and self.default_density
default_material == <<"S", "t", "r", "u", "c", "t", "u", "r", "a", "l", " ", "S", "t", "e", "e", "l">>
default_density == 7850

\* the capital letters of the names explored, and their lower case
LowerCase == ("S" :> "s") @@ ("A" :> "a") @@ ("T" :> "t") @@ ("C" :> "c") @@ ("B" :> "b") @@ ("P" :> "p") @@ ("I" :> "i")

\* str.lower()
Lowered(name) ==
    [i \in 1..Len(name) |-> IF name[i] \in DOMAIN LowerCase THEN LowerCase[name[i]] ELSE name[i]]

\* a in b, for strings: a is a run of consecutive characters of b
In(a, b) == \E i \in 0..(Len(b) - Len(a)) : SubSeq(b, i + 1, i + Len(a)) = a

\* the keys that the loop of get_density accepts for material_name
Matching(name) ==
    {n \in 1..Len(materials) :
        \/ In(Lowered(name), Lowered(materials[n].key))
        \/ In(Lowered(materials[n].key), Lowered(name))}

\* MaterialDatabase.get_density(material_name): (name, density, is_default);
\* the loop breaks at the first key accepted
get_density(name) ==
    IF name = NoName \/ name = <<>> THEN <<default_material, default_density, TRUE>>
    ELSE IF Matching(name) # {}
    THEN LET material_info == materials[First(Matching(name))]
         IN <<material_info.name, material_info.density, FALSE>>
    ELSE <<default_material, default_density, TRUE>>

\* the names a caller asks for: no name, the empty name, every run of
\* characters of a key, every key in lower case, and names outside the table
MaterialNames ==
    {NoName, <<>>, <<"W", "o", "o", "d">>, <<"S", "t", "e", "e", "l", " ", "3", "0", "4">>}
        \cup {Lowered(materials[n].key) : n \in 1..Len(materials)}
        \cup UNION {{SubSeq(materials[n].key, i, j) :
                        i \in 1..Len(materials[n].key),
                        j \in 1..Len(materials[n].key)} :
                    n \in 1..Len(materials)}

\* mat_db.get_density(material_name), as CADModel.compute_mass_properties
\* calls it
GetDensity(name) ==
    /\ material_name' = name
    /\ density_result' = get_density(name)
    /\ UNCHANGED <<mesh_vars, session_vars>>

NextMaterial == \E name \in MaterialNames : GetDensity(name)

SpecMaterial == Init /\ [][NextMaterial]_vars

-----------------------------------------------------------------------------
(* Properties of the meshes and of the properties records *)

\* request r holds its properties record
HasProperties(r) == pc[r] = "done"

\* generation for request r has ended, with a mesh or with an exception
Generated(r) == pc[r] \in {"generated", "done", "raised"}

\* the family tag of request r is one of the 12 registry entries
Registered(r) == parsed[r]["type"] \in DOMAIN FeatureLibrary

\* C1: in every mesh a generator returns, every value of indices is a valid
\* vertex index: 0 <= index < len(vertices) / 3.
C1_IndicesInBounds ==
    \A r \in Requests : HasMesh(r) =>
        \A k \in 1..Len(geometry_data[r].indices) :
            /\ 0 <= geometry_data[r].indices[k]
            /\ 3 * geometry_data[r].indices[k] < Len(geometry_data[r].vertices)

\* a shaft mesh is held, whose top cap fans from the last vertex
C1_Witness ==
    /\ HasMesh(1)
    /\ geometry_data[1].type = "shaft"
    /\ \E k \in 1..Len(geometry_data[1].indices) :
          3 * (geometry_data[1].indices[k] + 1) = Len(geometry_data[1].vertices)

\* C2: in every mesh a generator returns, len(indices) is a multiple of 3.
C2_WholeTriangles ==
    \A r \in Requests : HasMesh(r) => Len(geometry_data[r].indices) % 3 = 0

\* C3: in every mesh a generator returns, len(vertices) is a multiple of 3
\* and len(normals) = len(vertices).
C3_MeshShape ==
    \A r \in Requests : HasMesh(r) =>
        /\ Len(geometry_data[r].vertices) % 3 = 0
        /\ Len(geometry_data[r].normals) = Len(geometry_data[r].vertices)

\* a bracket mesh is held, with its 8 corners and 2 extra vertices
C3_Witness ==
    /\ HasMesh(1)
    /\ geometry_data[1].type = "bracket"
    /\ Len(geometry_data[1].vertices) = 30
    /\ Len(geometry_data[1].normals) = 30

\* the box of the default dimensions 50 x 50 x 10
DefaultBox(g) ==
    /\ Len(g.vertices) = 24
    /\ Len(g.indices) = 36
    /\ \A k \in 1..Len(g.indices) : g.indices[k] \in 0..7
    /\ calculate_bounding_box(g) = [length |-> 5000, width |-> 5000, height |-> 1000]

\* C4: generation for a family tag outside the registry never raises and
\* returns the box mesh of the default dimensions 50 x 50 x 10.
C4_UnknownFamilyFallsBack ==
    \A r \in Requests : (Generated(r) /\ ~Registered(r)) =>
        /\ pc[r] # "raised"
        /\ DefaultBox(geometry_data[r])

\* the inputs each resolved parameter of a family is read from: the named
\* fields, the position in `values` (-1: none), and the literal default
Reads(fields, position, default) ==
    [fields |-> fields, position |-> position, default |-> default]
LiteralDefaults ==
    [gear |-> [radius |-> Reads({"diameter"}, 0, MM(25)),
               thickness |-> Reads({}, 1, MM(10)),
               teeth |-> Reads({"teeth"}, 0 - 1, 20)],
     shaft |-> [radius |-> Reads({"diameter"}, 0, Quot(MM(25), 2)),
                length |-> Reads({}, 1, MM(100))],
     bearing |-> [outer_radius |-> Reads({"diameter"}, 0, MM(30)),
                  inner_radius |-> Reads({}, 1, MM(15)),
                  thickness |-> Reads({}, 2, MM(15))],
     bracket |-> [width |-> Reads({}, 0, MM(100)),
                  height |-> Reads({}, 1, MM(50)),
                  thickness |-> Reads({}, 2, MM(10))],
     plate |-> [width |-> Reads({}, 0, MM(100)),
                height |-> Reads({}, 1, MM(100)),
                thickness |-> Reads({}, 2, MM(5))],
     bolt |-> [radius |-> Reads({"diameter"}, 0, MM(4)),
               length |-> Reads({}, 1, MM(30))],
     cube |-> [size |-> Reads({"size"}, 0, MM(50))],
     prism |-> [base_width |-> Reads({"baseWidth"}, 0, MM(30)),
                base_height |-> Reads({"baseHeight"}, 1, MM(30)),
                length |-> Reads({"length"}, 2, MM(50))],
     cylinder |-> [radius |-> Reads({"radius"}, 0, MM(25)),
                   height |-> Reads({"height"}, 1, MM(50))],
     sphere |-> [radius |-> Reads({"radius"}, 0, MM(25))],
     cone |-> [base_radius |-> Reads({"baseRadius"}, 0, MM(25)),
               top_radius |-> Reads({"topRadius"}, 0 - 1, 0),
               height |-> Reads({"height"}, 1, MM(50))],
     pyramid |-> [base_width |-> Reads({"baseWidth"}, 0, MM(30)),
                  base_depth |-> Reads({"baseDepth"}, 1, MM(30)),
                  height |-> Reads({"height"}, 2, MM(40))]]

\* none of the inputs a parameter is read from is present in dimensions d
Absent(d, reads) ==
    /\ reads.fields \cap DOMAIN d = {}
    /\ \/ reads.position < 0
       \/ "values" \notin DOMAIN d
       \/ Len(d["values"]) <= reads.position

\* C5: for each of the 12 families, whichever named fields are absent and
\* whether `values` is absent or of any length, generation returns a mesh
\* (no read of `values` past its end) and every parameter whose inputs are
\* absent has the family's literal default.
C5_MissingInputsResolveToDefaults ==
    \A r \in Requests : (Generated(r) /\ Registered(r)) =>
        /\ pc[r] # "raised"
        /\ LET reads == LiteralDefaults[parsed[r]["type"]]
           IN \A key \in DOMAIN reads :
                  Absent(parsed[r]["dimensions"], reads[key]) =>
                      geometry_data[r].parameters[key] = reads[key].default

\* a bearing mesh is held that was built from a `values` list of one entry:
\* its inner radius and thickness are the defaults, its outer radius is not
C5_Witness ==
    /\ HasMesh(1)
    /\ geometry_data[1].type = "bearing"
    /\ "values" \in DOMAIN parsed[1]["dimensions"]
    /\ Len(parsed[1]["dimensions"]["values"]) = 1
    /\ geometry_data[1].parameters.inner_radius = MM(15)
    /\ geometry_data[1].parameters.thickness = MM(15)
    /\ geometry_data[1].parameters.outer_radius # MM(30)

Coords(vertices, offset) ==
    {vertices[k] : k \in {j \in 1..Len(vertices) : (j - 1) % 3 = offset}}
Least(S) == CHOOSE m \in S : \A y \in S : m <= y
Greatest(S) == 0 - Least({0 - y : y \in S})
Span(vertices, offset) == Greatest(Coords(vertices, offset)) - Least(Coords(vertices, offset))

\* the sides of a bounding box and the offset of their coordinate stream
Sides == [length |-> 0, width |-> 1, height |-> 2]

\* C7: the reported bounding box is exactly max - min of the x, y and z
\* coordinates of the mesh, with no loss of precision.
C7_BoundingBoxExact ==
    \A r \in Requests : (HasProperties(r) /\ geometry_data[r].vertices # <<>>) =>
        \A side \in DOMAIN Sides :
            properties[r].bounding_box[side] * Q
                = Span(geometry_data[r].vertices, Sides[side]) * 100

\* C7 as amended: the reported bounding box is max - min of the x, y and z
\* coordinates of the mesh, each rounded to two decimal places.
C7_BoundingBoxRounded ==
    \A r \in Requests : (HasProperties(r) /\ geometry_data[r].vertices # <<>>) =>
        \A side \in DOMAIN Sides :
            properties[r].bounding_box[side]
                = Round2(Span(geometry_data[r].vertices, Sides[side]))

\* a bracket 18.125 wide is reported 18.12 long
C7_Witness ==
    /\ HasProperties(1)
    /\ geometry_data[1].type = "bracket"
    /\ Span(geometry_data[1].vertices, 0) = MM(18) + 2
    /\ properties[1].bounding_box.length = 1812

\* pi * radius^2 * extent, rounded to two decimal places
CircularVolume(radius, extent) ==
    RoundVolume([circular |-> TRUE, cubic |-> radius * radius * extent], 100, 1)

\* C8: the reported volume of a gear, a shaft and a cylinder is
\* pi * radius^2 * (thickness | length | height) of the mesh's parameters.
C8_CylindricalClosedForm ==
    \A r \in Requests : HasProperties(r) =>
        LET params == geometry_data[r].parameters
        IN /\ geometry_data[r].type = "gear" =>
                  properties[r].volume = CircularVolume(params.radius, params.thickness)
           /\ geometry_data[r].type = "shaft" =>
                  properties[r].volume = CircularVolume(params.radius, params.length)
           /\ geometry_data[r].type = "cylinder" =>
                  properties[r].volume = CircularVolume(params.radius, params.height)

\* width * height * thickness of a parameters record, each replaced by
\* 50, 50, 10 when absent, in 1 / Q^3 mm^3
BoxCubic(params) ==
    Get(params, "width", MM(50)) * Get(params, "height", MM(50)) * Get(params, "thickness", MM(10))

\* the families whose volume is not the cylindrical closed form
BoxFamily(g) == g.type \notin {"gear", "shaft"}

\* C9: outside the cylindrical closed form the reported volume is exactly
\* W * H * T, and a cube's is 25000 whatever its size.
C9_BoxVolumeExact ==
    \A r \in Requests : (HasProperties(r) /\ BoxFamily(geometry_data[r])) =>
        /\ MulDivMod(BoxCubic(geometry_data[r].parameters), 100, Q * Q * Q)
               = <<properties[r].volume, 0>>
        /\ geometry_data[r].type = "cube" => properties[r].volume = 2500000

\* C9 as amended: outside the cylindrical closed form the reported volume is
\* W * H * T rounded to two decimal places, and a cube's is 25000 whatever
\* its size.
C9_BoxVolumeRounded ==
    \A r \in Requests : (HasProperties(r) /\ BoxFamily(geometry_data[r])) =>
        /\ properties[r].volume
               = RoundHalfEven(BoxCubic(geometry_data[r].parameters), 100, Q * Q * Q)
        /\ geometry_data[r].type = "cube" => properties[r].volume = 2500000

\* a cube of a size other than 50 is reported with volume 25000
C9_Witness ==
    /\ HasProperties(1)
    /\ geometry_data[1].type = "cube"
    /\ geometry_data[1].parameters.size # MM(50)
    /\ properties[1].volume = 2500000

\* C10: in every properties record mass = volume * density / 1000 for the
\* volume and the density reported in that record; the equality is taken
\* up to the two decimal places the mass is reported with.
C10_MassOfReportedVolume ==
    \A r \in Requests : HasProperties(r) =>
        properties[r].mass
            = RoundHalfEven(properties[r].volume, properties[r].density, 100000)

\* C10 as amended: the reported volume is the closed-form volume rounded to
\* two decimal places, and the reported mass is that closed-form volume,
\* before its rounding, times the reported density / 1000, rounded to two
\* decimal places.
C10_MassOfUnroundedVolume ==
    \A r \in Requests : HasProperties(r) =>
        /\ properties[r].volume = RoundVolume(Volume(geometry_data[r]), 100, 1)
        /\ properties[r].mass
               = RoundVolume(Volume(geometry_data[r]), properties[r].density, 1000)

\* a bracket 18.125 x 9.5 x 3 of steel: volume 516.5625 is reported 516.56,
\* and mass 4.05501... is reported 4.06, whereas 516.56 * 7.85 / 1000 is
\* 4.054996 and rounds to 4.05
C10_Witness ==
    /\ HasProperties(1)
    /\ geometry_data[1].type = "bracket"
    /\ properties[1].volume = 51656
    /\ properties[1].density = 785
    /\ properties[1].mass = 406

\* the material name request r asks for, "Steel" when it names none
Requested(r) == IF "material" \in DOMAIN parsed[r] THEN parsed[r]["material"] ELSE "Steel"

\* C11: the properties record reports density 7.85 and yield strength 250
\* for Steel, 2.7 and 95 for Aluminum, 4.5 and 880 for Titanium, and Steel's
\* 7.85 and 250 for every other material name and for no material.
C11_MaterialResolution ==
    \A r \in Requests : HasProperties(r) =>
        LET reported == <<properties[r].density, properties[r].yield_strength>>
        IN IF Requested(r) = "Aluminum" THEN reported = <<270, 95>>
           ELSE IF Requested(r) = "Titanium" THEN reported = <<450, 880>>
           ELSE reported = <<785, 250>>

\* a request for Brass, which the table does not hold, is reported with
\* Steel's density and yield strength
C11_Witness ==
    /\ HasProperties(1)
    /\ "material" \in DOMAIN parsed[1]
    /\ parsed[1]["material"] = "Brass"
    /\ properties[1].density = 785
    /\ properties[1].yield_strength = 250

\* C12: a material name outside the table is reported as "Steel", and in
\* every properties record the reported material is the table entry whose
\* density and yield strength are reported beside it.
C12_ReportedMaterialIsResolvedEntry ==
    \A r \in Requests : HasProperties(r) =>
        /\ Requested(r) \notin {"Steel", "Aluminum", "Titanium"} =>
               properties[r].material = "Steel"
        /\ properties[r].material \in {"Steel", "Aluminum", "Titanium"}
        /\ properties[r].material = "Steel" =>
               (properties[r].density = 785 /\ properties[r].yield_strength = 250)
        /\ properties[r].material = "Aluminum" =>
               (properties[r].density = 270 /\ properties[r].yield_strength = 95)
        /\ properties[r].material = "Titanium" =>
               (properties[r].density = 450 /\ properties[r].yield_strength = 880)

\* the diameter the gear generator is to resolve from dimensions d: the
\* `diameter` field, else 2 * values[0] of a non-empty list, else 50
GearDiameter(d) ==
    IF "diameter" \in DOMAIN d THEN d["diameter"]
    ELSE IF "values" \in DOMAIN d /\ Len(d["values"]) > 0 THEN 2 * d["values"][1]
    ELSE MM(50)

\* the teeth count to resolve: the `teeth` field, else 20
GearTeeth(d) == IF "teeth" \in DOMAIN d THEN d["teeth"] ELSE 20

\* the thickness to resolve: values[1] when the list holds it, else 10
GearThickness(d) ==
    IF "values" \in DOMAIN d /\ Len(d["values"]) > 1 THEN d["values"][2] ELSE MM(10)

\* C13: a gear mesh reports teeth and thickness as resolved from the
\* `teeth` field (else 20) and values[1] (else 10), radius = diameter / 2 and
\* module = diameter / teeth (to the resolution of the grid) for the diameter
\* resolved from the `diameter` field, else 2 * values[0], else 50; diameter
\* 50 with 20 teeth gives module 2.5 and radius 25.
C13_GearParameters ==
    \A r \in Requests : (HasMesh(r) /\ geometry_data[r].type = "gear") =>
        LET d == parsed[r]["dimensions"]
            params == geometry_data[r].parameters
        IN /\ params.teeth = GearTeeth(d)
           /\ params.thickness = GearThickness(d)
           /\ 2 * params.radius = GearDiameter(d)
           /\ params.module * GearTeeth(d) <= GearDiameter(d)
           /\ GearDiameter(d) < (params.module + 1) * GearTeeth(d)
           /\ (GearDiameter(d) = MM(50) /\ GearTeeth(d) = 20) =>
                  (params.module = MM(2) + 8 /\ params.radius = MM(25))

\* a gear is held whose diameter came from 2 * values[0] and whose thickness
\* came from values[1], with the default 20 teeth
C13_Witness ==
    /\ HasMesh(1)
    /\ geometry_data[1].type = "gear"
    /\ DOMAIN parsed[1]["dimensions"] = {"values"}
    /\ Len(parsed[1]["dimensions"]["values"]) >= 2
    /\ geometry_data[1].parameters.radius = MM(18) + 2
    /\ geometry_data[1].parameters.thickness = MM(9) + 8
    /\ geometry_data[1].parameters.teeth = 20

\* point n (from 0) of a flat list of coordinates or of normal components
Point(flat, n) == <<flat[3 * n + 1], flat[3 * n + 2], flat[3 * n + 3]>>

\* C14: a gear mesh of T teeth has 2 * (1 + 4 * T) vertices; vertices
\* 0 .. 4T are the bottom face, at z = -thickness/2 with normal (0, 0, -1),
\* and vertices 4T+1 .. 8T+1 the top face, at z = +thickness/2 with normal
\* (0, 0, 1); each face starts with its center (0, 0, z); 20 teeth give 162
\* vertices and 486 coordinates.
C14_GearVertexLayout ==
    \A r \in Requests : (HasMesh(r) /\ geometry_data[r].type = "gear") =>
        LET g == geometry_data[r]
            T == g.parameters.teeth
            half == Quot(g.parameters.thickness, 2)
        IN /\ T >= 1
           /\ Len(g.vertices) = 3 * 2 * (1 + 4 * T)
           /\ \A n \in 0..(4 * T) :
                  /\ Point(g.vertices, n)[3] = 0 - half
                  /\ Point(g.normals, n) = <<0, 0, 0 - NormalOne>>
           /\ \A n \in (4 * T + 1)..(8 * T + 1) :
                  /\ Point(g.vertices, n)[3] = half
                  /\ Point(g.normals, n) = <<0, 0, NormalOne>>
           /\ Point(g.vertices, 0) = <<0, 0, 0 - half>>
           /\ Point(g.vertices, 4 * T + 1) = <<0, 0, half>>
           /\ T = 20 => Len(g.vertices) = 486

\* a gear of 3 teeth is held, with its 26 vertices
C14_Witness ==
    /\ HasMesh(1)
    /\ geometry_data[1].type = "gear"
    /\ geometry_data[1].parameters.teeth = 3
    /\ Len(geometry_data[1].vertices) = 78

\* C15: whatever the dimensions, a shaft and a cylinder mesh have
\* (32 + 1) * 2 = 66 vertices (198 coordinates), and a sphere mesh has
\* (16 + 1) * (16 + 1) = 289 vertices (867 coordinates) and 16 * 16 * 2 = 512
\* triangles (1536 indices).
C15_FixedTessellation ==
    \A r \in Requests : HasMesh(r) =>
        /\ geometry_data[r].type \in {"shaft", "cylinder"} =>
               Len(geometry_data[r].vertices) = 198
        /\ geometry_data[r].type = "sphere" =>
               (Len(geometry_data[r].vertices) = 867 /\ Len(geometry_data[r].indices) = 1536)

\* a cylinder of a radius other than the default 25 is held with its 66
\* vertices
C15_Witness ==
    /\ HasMesh(1)
    /\ geometry_data[1].type = "cylinder"
    /\ geometry_data[1].parameters.radius = MM(18) + 2
    /\ Len(geometry_data[1].vertices) = 198

\* field `field` of dimensions d, when supplied, is the value of `key` in
\* the mesh parameters
Resolves(d, field, params, key) == field \in DOMAIN d => params[key] = d[field]

\* C16: a named dimension field supplied with the request is the value the
\* generator resolves for the corresponding mesh parameter, before `values`
\* and before the defaults: the shaft's radius and length are the `radius`
\* (or half the `diameter`) and `length` fields, the prism's base extents the
\* `base_width` and `base_height` fields, the pyramid's the `base_width` and
\* `base_depth` fields.
C16_NamedFieldsTakePrecedence ==
    \A r \in Requests : HasMesh(r) =>
        LET d == parsed[r]["dimensions"]
            params == geometry_data[r].parameters
        IN /\ geometry_data[r].type = "shaft" =>
                  /\ Resolves(d, "radius", params, "radius")
                  /\ Resolves(d, "length", params, "length")
                  /\ ("diameter" \in DOMAIN d /\ "radius" \notin DOMAIN d) =>
                         2 * params.radius = d["diameter"]
           /\ geometry_data[r].type = "prism" =>
                  /\ Resolves(d, "base_width", params, "base_width")
                  /\ Resolves(d, "base_height", params, "base_height")
           /\ geometry_data[r].type = "pyramid" =>
                  /\ Resolves(d, "base_width", params, "base_width")
                  /\ Resolves(d, "base_depth", params, "base_depth")

\* what request r holds is what its input yields when run alone, on an
\* engine whose registry is as __init__ built it
AsRunAlone(r) ==
    LET alone == generate_enhanced_geometry(FeatureLibrary, parsed[r])
    IN /\ pc[r] = "raised" => (Raised(alone) /\ exception[r] = alone.raised)
       /\ HasMesh(r) => geometry_data[r] = alone
       /\ HasProperties(r) => properties[r] = calculate_properties(alone, parsed[r])

\* a step leaves the registries alone, and leaves the input, the mesh and
\* the properties of every request other than the one that takes the step;
\* a request between its parse and its return leaves its own input alone
WritesOnlyItsOwn ==
    /\ feature_library' = feature_library
    /\ \A q \in Requests :
          /\ pc'[q] = pc[q] =>
                 /\ parsed'[q] = parsed[q]
                 /\ geometry_data'[q] = geometry_data[q]
                 /\ properties'[q] = properties[q]
          /\ pc[q] \in {"parsed", "generated"} => parsed'[q] = parsed[q]
          /\ pc[q] = "generated" => geometry_data'[q] = geometry_data[q]

\* C17: requests sharing one engine, their steps interleaved in any order,
\* each hold the mesh and the properties they get when run alone, and no
\* step writes the registry, the input record of a request in progress, or
\* the mesh or properties of another request.
C17_SharedEngineIsolation ==
    /\ [](\A r \in Requests : pc[r] # "idle" => AsRunAlone(r))
    /\ [][WritesOnlyItsOwn]_vars

\* two requests with different inputs are in progress on the same engine,
\* one holding its mesh and the other its properties
C17_Witness ==
    /\ engine[1] = engine[2]
    /\ pc[1] = "generated"
    /\ pc[2] = "done"
    /\ parsed[1] # parsed[2]
    /\ geometry_data[1].type # geometry_data[2].type

\* the value a generator is to resolve from the named field, else from
\* values[position] when the list holds it (position -1: never), else the
\* default
Resolved(d, field, position, default) ==
    IF field \in DOMAIN d THEN d[field]
    ELSE IF position >= 0 /\ "values" \in DOMAIN d /\ Len(d["values"]) > position
    THEN d["values"][position + 1]
    ELSE default

\* the request asks for a gear of no teeth, or for a shaft, a cylinder, a
\* bearing or a sphere of radius or diameter zero
Degenerate(p) ==
    LET d == p["dimensions"]
    IN \/ p["type"] = "gear" /\ Resolved(d, "teeth", 0 - 1, 20) = 0
       \/ p["type"] = "shaft" /\ Resolved(d, "diameter", 0, MM(25)) = 0
       \/ p["type"] = "cylinder" /\ Resolved(d, "radius", 0, MM(25)) = 0
       \/ p["type"] = "sphere" /\ Resolved(d, "radius", 0, MM(25)) = 0
       \/ p["type"] = "bearing" /\ Resolved(d, "diameter", 0, MM(60)) = 0

\* C18: a degenerate dimension ends in the error outcome InvalidDimension;
\* no division by zero leaves the generator.
C18_DegenerateIsInvalidDimension ==
    \A r \in Requests : (Generated(r) /\ Degenerate(parsed[r])) =>
        /\ pc[r] = "raised"
        /\ exception[r] = "InvalidDimension"

\* the call last made is `name`, and the result it returned reports success
Called(name) == "name" \in DOMAIN call /\ call.name = name
Succeeded == "success" \in DOMAIN response /\ response.success

\* path p lies below directory dir
Inside(p, dir) ==
    /\ p.absolute = dir.absolute
    /\ Len(p.parts) > Len(dir.parts)
    /\ SubSeq(p.parts, 1, Len(dir.parts)) = dir.parts
    /\ \A i \in 1..Len(p.parts) : p.parts[i] # ".."

\* an export_model('stl', filename) that follows a process_natural_language
\* which returned success returns success, its filepath lies inside
\* output_dir and the file exists there; a failure of the exporter itself
\* to write the file ('Export failed') is not held against the call
ExportFollowsSuccess ==
    (Called("process_natural_language") /\ Succeeded
        /\ call'.name = "export_model" /\ call'.format = "stl") =>
            /\ response'.success \/ response'.error = "Export failed"
            /\ response'.success =>
                   /\ Inside(response'.filepath, output_dir)
                   /\ response'.filepath \in filesystem'

\* C19: once process_natural_language has returned success, a following
\* export_model('stl', filename) returns success with a filepath inside
\* output_dir at which the exported file exists; and export_model succeeds
\* only in states where a current model is set.
C19_ExportAfterSuccessfulProcess ==
    /\ [][ExportFollowsSuccess]_vars
    /\ []((Called("export_model") /\ Succeeded) => current_model # None)

\* the description asks for a gear and leaves out the teeth count or the
\* module
IncompleteGear(description) ==
    /\ Has(description, "gear")
    /\ \/ NumeralBefore(description, {"teeth", "tooth"}) = {}
       \/ NumeralAfter(description, "module") = {}

\* a process_natural_language call for an incomplete gear returns success
\* False with the missing parameters listed and leaves the session as it was
IncompleteGearIsRejected ==
    (call'.name = "process_natural_language" /\ IncompleteGear(call'.description)) =>
        /\ ~response'.success
        /\ "missing_parameters" \in DOMAIN response'
        /\ response'.missing_parameters # <<>>
        /\ current_model' = current_model
        /\ feature_history' = feature_history

\* C20: a gear request that does not specify the module and the teeth count
\* is answered with success False and the missing parameters, creates no
\* model and leaves current_model and feature_history unchanged; no gear in
\* the history was built from a defaulted module or teeth count.
C20_MandatoryGearRule ==
    /\ [][IncompleteGearIsRejected]_vars
    /\ [](\A i \in 1..Len(feature_history) :
              feature_history[i].model.kind = "gear" =>
                  {"teeth", "module"} \subseteq DOMAIN feature_history[i].parsed_data.dimensions)

\* the t-th triple of an index list, t = 0, 1, ...
Triangle(indices, t) == <<indices[3 * t + 1], indices[3 * t + 2], indices[3 * t + 3]>>

\* vertex n of a gear of T teeth is a tooth vertex of the given face
\* (0 = bottom, 1 = top): not the face's center
ToothVertexOf(n, face, T) ==
    /\ n > face * (1 + 4 * T)
    /\ n <= face * (1 + 4 * T) + 4 * T

\* the quadruple of its face that tooth vertex n belongs to
QuadrupleOf(n, face, T) == (n - (face * (1 + 4 * T) + 1)) \div 4

\* C21: every triangle of a gear mesh fans from the center vertex of the face
\* it belongs to: its first index is 0 on the bottom face and 1 + 4 * teeth on
\* the top face, and its two other indices are consecutive tooth vertices of
\* that face, inside one of the face's quadruples of tooth vertices.
C21_GearFansFromFaceCenter ==
    \A r \in Requests : (HasMesh(r) /\ geometry_data[r].type = "gear") =>
        LET g == geometry_data[r]
            T == g.parameters.teeth
        IN \A t \in 0..((Len(g.indices) \div 3) - 1) :
               LET tri == Triangle(g.indices, t)
               IN \E face \in {0, 1} :
                      /\ tri[1] = face * (1 + 4 * T)
                      /\ ToothVertexOf(tri[2], face, T)
                      /\ ToothVertexOf(tri[3], face, T)
                      /\ tri[3] = tri[2] + 1
                      /\ QuadrupleOf(tri[2], face, T) = QuadrupleOf(tri[3], face, T)

\* vector operations on points <<x, y, z>>
Minus(a, b) == <<a[1] - b[1], a[2] - b[2], a[3] - b[3]>>
Dot(a, b) == a[1] * b[1] + a[2] * b[2] + a[3] * b[3]

\* the cross product of two edges, in whole square millimetres
Cross(a, b) ==
    <<Quot(a[2] * b[3] - a[3] * b[2], Q * Q),
      Quot(a[3] * b[1] - a[1] * b[3], Q * Q),
      Quot(a[1] * b[2] - a[2] * b[1], Q * Q)>>

\* the right-hand-rule normal of triangle t of mesh g: the cross product of
\* its edges in index order
FaceNormal(g, t) ==
    LET tri == Triangle(g.indices, t)
        a == Point(g.vertices, tri[1])
    IN Cross(Minus(Point(g.vertices, tri[2]), a), Minus(Point(g.vertices, tri[3]), a))

\* triangle t of mesh g is non-degenerate and its normal points out of the
\* solid.  The five solids are convex and hold the origin inside, so a face's
\* normal points out exactly when the face's plane lies on the normal's side
\* of the origin: away from the axis for a lateral face, to -z for a cap at
\* z < 0 and to +z for a cap at z > 0.
WoundOutward(g, t) ==
    Dot(FaceNormal(g, t), Point(g.vertices, Triangle(g.indices, t)[1])) > 0

\* triangle t of mesh g is lateral (its normal has no z component) and its
\* normal agrees with the stored normals of its three vertices
AgreesWithVertexNormals(g, t) ==
    \A k \in 1..3 : Dot(FaceNormal(g, t), Point(g.normals, Triangle(g.indices, t)[k])) > 0

\* C22: in every prism, pyramid, cone, shaft and cylinder mesh built from
\* positive dimensions, every non-degenerate triangle is wound so that its
\* right-hand-rule normal points out of the solid, and on the lateral faces
\* of the shaft and the cylinder, whose stored vertex normals are radial, it
\* agrees with them.
C22_WoundOutward ==
    \A r \in Requests :
        (HasMesh(r) /\ geometry_data[r].type \in {"prism", "pyramid", "cone", "shaft", "cylinder"}) =>
            LET g == geometry_data[r]
            IN \A t \in 0..((Len(g.indices) \div 3) - 1) :
                   FaceNormal(g, t) # <<0, 0, 0>> =>
                       /\ WoundOutward(g, t)
                       /\ (g.type \in {"shaft", "cylinder"} /\ FaceNormal(g, t)[3] = 0)
                              => AgreesWithVertexNormals(g, t)

\* the set of the three vertex indices of triangle t
Corners(indices, t) == {Triangle(indices, t)[k] : k \in 1..3}

\* the triangles of mesh g that lie in the face of the box on the given side
\* (sign 1 or -1) of the given axis (1 = x, 2 = y, 3 = z)
InFace(g, axis, sign) ==
    {t \in 0..((Len(g.indices) \div 3) - 1) :
        \A n \in Corners(g.indices, t) : Point(g.vertices, n)[axis] * sign > 0}

\* the corner vertices 0..7 of mesh g on the given side of the given axis
FaceCorners(g, axis, sign) == {n \in 0..7 : Point(g.vertices, n)[axis] * sign > 0}

\* C23: a bracket, plate or cube mesh built from positive dimensions has 36
\* indices, 12 triangles over the corner vertices 0..7 only; each of the 6
\* faces of the box holds exactly two of the triangles, which share a
\* diagonal and cover the face's 4 corners; every triangle's right-hand-rule
\* normal points away from the box centre; every vertex normal is (0,0,1);
\* and the bracket's vertices 8 and 9 are in no triangle.
C23_BoxTopology ==
    \A r \in Requests :
        (HasMesh(r) /\ geometry_data[r].type \in {"bracket", "plate", "cube"}) =>
            LET g == geometry_data[r]
                triangles == 0..11
            IN /\ Len(g.indices) = 36
               /\ \A k \in 1..36 : g.indices[k] \in 0..7
               /\ \A axis \in 1..3 : \A sign \in {1, 0 - 1} :
                      LET face == InFace(g, axis, sign)
                      IN /\ Cardinality(face) = 2
                         /\ \A t, u \in face : t # u =>
                                /\ Corners(g.indices, t) \cup Corners(g.indices, u)
                                       = FaceCorners(g, axis, sign)
                                /\ Cardinality(Corners(g.indices, t) \cap Corners(g.indices, u)) = 2
                         /\ Cardinality(FaceCorners(g, axis, sign)) = 4
               /\ \A t \in triangles :
                      /\ \E axis \in 1..3 : \E sign \in {1, 0 - 1} : t \in InFace(g, axis, sign)
                      /\ WoundOutward(g, t)
               /\ \A n \in 0..(PointCount(g.vertices) - 1) :
                      Point(g.normals, n) = <<0, 0, NormalOne>>
               /\ PointCount(g.vertices) = (IF g.type = "bracket" THEN 10 ELSE 8)
               /\ g.type = "bracket" =>
                      \A k \in 1..36 : g.indices[k] \notin {8, 9}

\* a bracket 18.125 x 9.5 x 3 is held, with its 10 vertices and 36 indices
C23_Witness ==
    /\ HasMesh(1)
    /\ geometry_data[1].type = "bracket"
    /\ geometry_data[1].parameters.width = MM(18) + 2
    /\ geometry_data[1].parameters.thickness = MM(3)
    /\ PointCount(geometry_data[1].vertices) = 10
    /\ Len(geometry_data[1].indices) = 36
    /\ Corners(geometry_data[1].indices, 0) = {0, 1, 2}

\* C24: prism, pyramid and cone meshes carry none of the keys width, height,
\* thickness in their parameters, and their reported volume is 25000 for
\* every input.
C24_VolumeIsDefault ==
    \A r \in Requests :
        (HasProperties(r) /\ geometry_data[r].type \in {"prism", "pyramid", "cone"}) =>
            /\ DOMAIN geometry_data[r].parameters \cap {"width", "height", "thickness"} = {}
            /\ properties[r].volume = 2500000

\* C24 as amended: a prism mesh carries none of the keys width, height,
\* thickness and its reported volume is 25000 for every input; pyramid and
\* cone meshes carry height, and neither width nor thickness, and their
\* reported volume is 50 * height * 10 rounded to two decimal places.
C24_VolumeFollowsHeightOnly ==
    \A r \in Requests :
        (HasProperties(r) /\ geometry_data[r].type \in {"prism", "pyramid", "cone"}) =>
            LET params == geometry_data[r].parameters
            IN IF geometry_data[r].type = "prism"
               THEN /\ DOMAIN params \cap {"width", "height", "thickness"} = {}
                    /\ properties[r].volume = 2500000
               ELSE /\ DOMAIN params \cap {"width", "height", "thickness"} = {"height"}
                    /\ properties[r].volume
                           = RoundHalfEven(MM(50) * params.height * MM(10), 100, Q * Q * Q)

\* a pyramid of height 3 is reported with volume 50 * 3 * 10 = 1500
C24_Witness ==
    /\ HasProperties(1)
    /\ geometry_data[1].type = "pyramid"
    /\ geometry_data[1].parameters.height = MM(3)
    /\ properties[1].volume = 150000

\* C25: the bearing and bolt generators compute no triangulation: indices is
\* the identity sequence over the mesh's vertices, one entry per vertex.  The
\* bearing emits 4 vertices (outer top, outer bottom, inner top, inner
\* bottom) at each of 48 + 1 angular samples, 196 in all; the bolt emits 12
\* hex-head vertices (bottom and top of the head at each of 6 corners) and
\* then 2 vertices (start and end of the shaft) at each of 16 + 1 samples, 46
\* in all.
C25_IdentityIndices ==
    \A r \in Requests : (HasMesh(r) /\ geometry_data[r].type \in {"bearing", "bolt"}) =>
        LET g == geometry_data[r]
            z(n) == Point(g.vertices, n)[3]
        IN /\ Len(g.indices) = PointCount(g.vertices)
           /\ \A k \in 0..(Len(g.indices) - 1) : g.indices[k + 1] = k
           /\ g.type = "bearing" =>
                  /\ PointCount(g.vertices) = 4 * (48 + 1)
                  /\ \A n \in 0..(4 * (48 + 1) - 1) :
                         z(n) = (IF n % 2 = 0 THEN Quot(g.parameters.thickness, 2)
                                 ELSE 0 - Quot(g.parameters.thickness, 2))
                  /\ \A i \in 0..48 :
                         /\ Point(g.vertices, 4 * i)[1] = Point(g.vertices, 4 * i + 1)[1]
                         /\ Point(g.vertices, 4 * i + 2)[1] = Point(g.vertices, 4 * i + 3)[1]
                  /\ Point(g.vertices, 0)[1] = g.parameters.outer_radius
                  /\ Point(g.vertices, 2)[1] = g.parameters.inner_radius
           /\ g.type = "bolt" =>
                  /\ PointCount(g.vertices) = 12 + 2 * (16 + 1)
                  /\ \A n \in 0..11 :
                         z(n) = (IF n % 2 = 0 THEN 0 ELSE g.parameters.head_height)
                  /\ \A n \in 12..45 :
                         z(n) = (IF n % 2 = 0 THEN g.parameters.head_height
                                 ELSE g.parameters.head_height + g.parameters.length)
                  /\ Point(g.vertices, 0)[1] = g.parameters.head_radius
                  /\ Point(g.vertices, 12)[1] = g.parameters.radius

\* a bolt is held with its 46 vertices, the last index naming the last vertex
C25_Witness ==
    /\ HasMesh(1)
    /\ geometry_data[1].type = "bolt"
    /\ Len(geometry_data[1].indices) = 46
    /\ geometry_data[1].indices[46] = 45
    /\ geometry_data[1].parameters.radius # MM(4)

\* the indices of mesh g are the placeholder: the identity sequence over its
\* vertices, as the bearing and the bolt generator return it
PlaceholderIndices(g) ==
    /\ g.type \in {"bearing", "bolt"}
    /\ g.indices = Range(PointCount(g.vertices))

\* C26: every mesh whose indices are the placeholder identity sequence (the
\* bearing mesh and the bolt mesh) carries a "note" entry in its parameters;
\* no mesh with placeholder indices is returned without it.
C26_PlaceholderIsFlagged ==
    \A r \in Requests : (HasMesh(r) /\ PlaceholderIndices(geometry_data[r])) =>
        "note" \in DOMAIN geometry_data[r].parameters

\* a dimensions dict without its top-radius input
WithoutTopRadius(d) == [k \in (DOMAIN d) \ {"topRadius"} |-> d[k]]

\* requests r and q differ at most in the top-radius input
SameButTopRadius(r, q) ==
    /\ parsed[r]["type"] = parsed[q]["type"]
    /\ parsed[r].material = parsed[q].material
    /\ WithoutTopRadius(parsed[r].dimensions) = WithoutTopRadius(parsed[q].dimensions)

\* C27: the cone mesh is a pointed cone whatever top radius is supplied: two
\* cone requests that differ only in the top-radius input hold identical
\* vertices, normals and indices; the mesh has 32 + 2 vertices, the apex on
\* the axis at index 0 with normal (0,0,1) and then a base ring with normal
\* (0,0,-1), and 32 triangles that each start at the apex; the top radius
\* supplied is reported in parameters.
C27_TopRadiusUnused ==
    \A r \in Requests : (HasMesh(r) /\ geometry_data[r].type = "cone") =>
        LET g == geometry_data[r]
        IN /\ \A q \in Requests :
                  (HasMesh(q) /\ geometry_data[q].type = "cone" /\ SameButTopRadius(r, q)) =>
                      /\ geometry_data[q].vertices = g.vertices
                      /\ geometry_data[q].normals = g.normals
                      /\ geometry_data[q].indices = g.indices
           /\ PointCount(g.vertices) = 32 + 2
           /\ Point(g.vertices, 0) = <<0, 0, Quot(g.parameters.height, 2)>>
           /\ Point(g.normals, 0) = <<0, 0, NormalOne>>
           /\ \A n \in 1..33 :
                  /\ Point(g.normals, n) = <<0, 0, 0 - NormalOne>>
                  /\ Point(g.vertices, n)[3] = 0 - Quot(g.parameters.height, 2)
           /\ Len(g.indices) = 3 * 32
           /\ \A t \in 0..31 : Triangle(g.indices, t)[1] = 0
           /\ g.parameters.top_radius = Get(parsed[r].dimensions, "topRadius", 0)

\* two cones are held that differ in the top radius alone, 10 against none,
\* with equal vertices
C27_Witness ==
    /\ HasMesh(1) /\ HasMesh(2)
    /\ geometry_data[1].type = "cone" /\ geometry_data[2].type = "cone"
    /\ SameButTopRadius(1, 2)
    /\ geometry_data[1].parameters.top_radius = MM(10)
    /\ "topRadius" \notin DOMAIN parsed[2].dimensions
    /\ geometry_data[1].vertices = geometry_data[2].vertices
    /\ geometry_data[1].parameters # geometry_data[2].parameters

\* a call of export_model, modify_model or get_model_properties made while
\* no model is current returns its error result and leaves current_model and
\* feature_history as they were
NoModelIsAnError ==
    (current_model = None /\ "name" \in DOMAIN call') =>
        /\ call'.name = "export_model" =>
               response' = [success |-> FALSE, error |-> "No model to export"]
        /\ call'.name = "modify_model" =>
               response' = [success |-> FALSE, error |-> "No current model to modify"]
        /\ call'.name = "get_model_properties" =>
               response' = [error |-> "No model available"]
        /\ call'.name \in {"export_model", "modify_model", "get_model_properties"} =>
               /\ current_model' = None
               /\ feature_history' = feature_history
               /\ filesystem' = filesystem

\* C28: in a session where no model has yet been created, export_model,
\* modify_model and get_model_properties each return an error result ('No
\* model to export', 'No current model to modify', 'No model available') and
\* leave current_model and feature_history unchanged, for every argument and
\* in any order of calls.
C28_NoModelYet == [][NoModelIsAnError]_vars

\* modify_model has been called while no model is current: it returned its
\* error, and there is still no model, no history entry and no file
C28_Witness ==
    /\ current_model = None
    /\ feature_history = <<>>
    /\ filesystem = {}
    /\ Called("modify_model")
    /\ call.description = <<"gear", "20", "teeth", "module", "2">>
    /\ response = [success |-> FALSE, error |-> "No current model to modify"]

\* a process_natural_language or modify_model call that returns success
\* False leaves current_model and feature_history as they were, and they
\* change only in a call that returns success True
FailureChangesNothing ==
    /\ ("name" \in DOMAIN call'
           /\ call'.name \in {"process_natural_language", "modify_model"}
           /\ ~response'.success) =>
               /\ current_model' = current_model
               /\ feature_history' = feature_history
    /\ (current_model' # current_model \/ feature_history' # feature_history) =>
           /\ "success" \in DOMAIN response'
           /\ response'.success

\* C29: whenever a process_natural_language or modify_model call returns
\* success False (model creation failed, or preview rendering or property
\* extraction raised), current_model and feature_history are exactly what
\* they were before the call; a model becomes current, and a history entry
\* is appended, only by a call that returns success True.
C29_FailedCallChangesNothing == [][FailureChangesNothing]_vars

\* the entry of the table under exactly this key
EntryOf(name) == materials[CHOOSE n \in 1..Len(materials) : materials[n].key = name]

\* name is exactly a key of the materials table
IsKey(name) == \E n \in 1..Len(materials) : materials[n].key = name

\* C30: get_density(name), for a name that is exactly a key of the materials
\* table, returns that entry's own name and density with is_default False;
\* the result never comes from another entry that shares a substring with
\* the name.
C30_ExactKeyGetsOwnEntry ==
    IsKey(material_name) =>
        density_result = <<EntryOf(material_name).name, EntryOf(material_name).density, FALSE>>

=============================================================================
